---- MODULE Spec2Model ----
(***************************************************************************)
(* Verification model of leo-git-statistics: the API result cache, token   *)
(* scope resolution, the repository collector, the partial-failure         *)
(* wrapper, lazy accessors, memoising collectors, snapshot/webhook         *)
(* dispatch and the persistent traffic store.                              *)
(*                                                                         *)
(* The module holds several specifications over one set of variables; each *)
(* specification moves only the variables of its own component.            *)
(***************************************************************************)
EXTENDS Integers, Sequences, FiniteSets, TLC

VARIABLES
    \* ---- api/deps/cache.py ----
    now,          \* wall clock, in ticks
    local_cache,  \* _local_cache: TTLCache, as a sequence in LRU order (head = least recent)
    redisUrl,     \* _REDIS_URL is set
    redisConn,    \* the module global _redis is not None
    redisUp,      \* the Redis server answers (environment)
    redisStore,   \* contents of the Redis server: key -> [raw, expires] (NoEntry: never stored)
    hits,         \* _hits
    misses,       \* _misses
    sets,         \* history: number of cache_set calls so far
    lastSet,      \* history: key -> the last cache_set of that key, or NoSet
    touched,      \* history: key -> other keys stored or hit since the last cache_set of key
    lastGet,      \* history: the cache_get performed by the last step, or NoGet
    \* ---- configuration and requests (api/deps, api/routes) ----
    environ,      \* os.environ: the repository filter switches
    req,          \* the requests: request id -> its parameters, position and response
    \* ---- RepoStatsCollector (src/core/repo_stats_collector.py) ----
    rc,           \* one collector: its filter, position and accumulated statistics
    \* ---- PartialCollector (api/services/stats_service.py) ----
    pcw,          \* one handler's PartialCollector: _warnings, the calls made, the response
    \* ---- lazy accessors of one collector instance (src/utils/decorators.py) ----
    fl,           \* the cached attributes, the tasks calling accessors, loader runs
    \* ---- memoising collectors (src/core/*_tracker.py, *_collector.py, *_analyzer.py) ----
    memo,         \* the memo attribute of each operation, its queries, the last call
    \* ---- snapshots and webhooks (api/routes/history.py, notification_dispatcher.py) ----
    snapshots,    \* the snapshots table of one user, in timestamp order
    notified,     \* history: the webhook POSTs that reached their endpoint
    sreq,         \* the POST /history/snapshot requests
    \* ---- traffic store (src/db/db.py, src/core/traffic_stats.py, traffic_collector.py) ----
    db,           \* the views row of traffic_stats: count, date_from, date_to
    treq,         \* the requests: their TrafficStats instance and position
    thist,        \* history: the initial row, the (repository, day) counts reported, the peak
    \* ---- dispatch_webhooks, hook by hook (api/services/notification_dispatcher.py) ----
    wd,           \* one snapshot request: its hooks, position, POSTs made and response
    \* ---- GitHubClient (src/core/github_client.py) ----
    cl,           \* one call of query / query_rest: its attempts and what they answered
    pool,         \* the semaphore of one client and the callers going through it
    \* ---- GET /health (api/routes/health.py) ----
    hl,           \* the observed breaker and rate-limit state, and the response
    \* ---- evaluate_conditions (api/services/notification_dispatcher.py) ----
    ev,           \* the arguments of one evaluation and its result
    \* ---- SnapshotStore (src/db/snapshots.py) ----
    ss,           \* the rows of the snapshots table and the last query's result
    \* ---- WebhookStore and its routes (src/db/webhooks.py, api/routes/webhooks.py) ----
    wh,           \* the rows of the webhooks table and the last operation's outcome
    \* ---- ContributionTracker (src/core/contribution_tracker.py) ----
    cal,          \* one calendar, today, and the streaks and recent counts computed from it
    \* ---- CodeChangeAnalyzer (src/core/code_change_analyzer.py) ----
    cc,           \* one analyze run: what each repository's query did and the totals
    \* ---- per-repository fan-out (src/core/traffic_collector.py, engagement_collector.py) ----
    fo,           \* one fan-out: each repository's query, the semaphore and the result
    \* ---- privacy masking (src/utils/privacy.py, src/core/commit_schedule_collector.py) ----
    pm,           \* one weekly schedule: the commits fetched and the list handed out
    \* ---- language aggregation (src/core/repo_stats_collector.py) ----
    lg,           \* the repositories of one collect() run and the languages dict
    \* ---- commit schedule (src/core/commit_schedule_collector.py) ----
    ws,           \* the commits of one week, the pages fetched and the entries returned
    \* ---- is_repo_type_excluded (repo_stats_collector.py, stats_collector.py) ----
    rt,           \* one descriptor, the flags and both decisions
    \* ---- _paginate (api/routes/users.py) ----
    pg,           \* one item list, page and per_page, and the page returned
    \* ---- server token (api/services/stats_service.py, api/deps/github_token.py, api/main.py) ----
    tk,           \* the token variables, one request, its position and response
    \* ---- StatsCollector.get_stats and its accessors (src/core/stats_collector.py) ----
    gs,           \* the collector's fields and the tasks inside its accessors
    \* ---- the cursors of collect() (src/core/repo_stats_collector.py) ----
    cp            \* both connections' lengths, the cursors, the pages processed and the queries issued

cacheVars == <<now, local_cache, redisUrl, redisConn, redisUp, redisStore,
               hits, misses, sets, lastSet, touched, lastGet>>

apiVars == <<environ, req>>

repoVars == <<rc>>

partialVars == <<pcw>>

flightVars == <<fl>>

memoVars == <<memo>>

snapVars == <<snapshots, notified, sreq>>

trafficVars == <<db, treq, thist>>

dispatchVars == <<wd>>

clientVars == <<cl>>

poolVars == <<pool>>

healthVars == <<hl>>

evalVars == <<ev>>

storeVars == <<ss>>

webhookVars == <<wh>>

calendarVars == <<cal>>

changesVars == <<cc>>

fanoutVars == <<fo>>

privacyVars == <<pm>>

languageVars == <<lg>>

scheduleVars == <<ws>>

repoTypeVars == <<rt>>

paginateVars == <<pg>>

tokenVars == <<tk>>

statsVars == <<gs>>

pagingVars == <<cp>>

vars == <<cacheVars, apiVars, repoVars, partialVars, flightVars,
          memoVars, snapVars, trafficVars, dispatchVars, clientVars,
          poolVars, healthVars, evalVars, storeVars, webhookVars,
          calendarVars, changesVars, fanoutVars, privacyVars,
          languageVars, scheduleVars, repoTypeVars, paginateVars,
          tokenVars, statsVars, pagingVars>>

\* what the actions of one component leave alone
outsideCache ==
    <<apiVars, repoVars, partialVars, flightVars, memoVars, snapVars,
      trafficVars, dispatchVars, clientVars, poolVars, healthVars,
      evalVars, storeVars, webhookVars, calendarVars, changesVars,
      fanoutVars, privacyVars, languageVars, scheduleVars,
      repoTypeVars, paginateVars, tokenVars, statsVars, pagingVars>>
outsideApi ==
    <<repoVars, partialVars, flightVars, memoVars, snapVars,
      trafficVars, dispatchVars, clientVars, poolVars, healthVars,
      evalVars, storeVars, webhookVars, calendarVars, changesVars,
      fanoutVars, privacyVars, languageVars, scheduleVars,
      repoTypeVars, paginateVars, tokenVars, statsVars, pagingVars>>
outsideRepo ==
    <<cacheVars, req, partialVars, flightVars, memoVars, snapVars,
      trafficVars, dispatchVars, clientVars, poolVars, healthVars,
      evalVars, storeVars, webhookVars, calendarVars, changesVars,
      fanoutVars, privacyVars, languageVars, scheduleVars,
      repoTypeVars, paginateVars, tokenVars, statsVars, pagingVars>>
outsidePartial ==
    <<cacheVars, apiVars, repoVars, flightVars, memoVars, snapVars,
      trafficVars, dispatchVars, clientVars, poolVars, healthVars,
      evalVars, storeVars, webhookVars, calendarVars, changesVars,
      fanoutVars, privacyVars, languageVars, scheduleVars,
      repoTypeVars, paginateVars, tokenVars, statsVars, pagingVars>>
outsideFlight ==
    <<cacheVars, apiVars, repoVars, partialVars, memoVars, snapVars,
      trafficVars, dispatchVars, clientVars, poolVars, healthVars,
      evalVars, storeVars, webhookVars, calendarVars, changesVars,
      fanoutVars, privacyVars, languageVars, scheduleVars,
      repoTypeVars, paginateVars, tokenVars, statsVars, pagingVars>>
outsideMemo ==
    <<cacheVars, apiVars, repoVars, partialVars, flightVars, snapVars,
      trafficVars, dispatchVars, clientVars, poolVars, healthVars,
      evalVars, storeVars, webhookVars, calendarVars, changesVars,
      fanoutVars, privacyVars, languageVars, scheduleVars,
      repoTypeVars, paginateVars, tokenVars, statsVars, pagingVars>>
outsideSnap ==
    <<cacheVars, apiVars, repoVars, partialVars, flightVars, memoVars,
      trafficVars, dispatchVars, clientVars, poolVars, healthVars,
      evalVars, storeVars, webhookVars, calendarVars, changesVars,
      fanoutVars, privacyVars, languageVars, scheduleVars,
      repoTypeVars, paginateVars, tokenVars, statsVars, pagingVars>>
outsideTraffic ==
    <<cacheVars, apiVars, repoVars, partialVars, flightVars, memoVars,
      snapVars, dispatchVars, clientVars, poolVars, healthVars,
      evalVars, storeVars, webhookVars, calendarVars, changesVars,
      fanoutVars, privacyVars, languageVars, scheduleVars,
      repoTypeVars, paginateVars, tokenVars, statsVars, pagingVars>>
outsideDispatch ==
    <<cacheVars, apiVars, repoVars, partialVars, flightVars, memoVars,
      snapVars, trafficVars, clientVars, poolVars, healthVars,
      evalVars, storeVars, webhookVars, calendarVars, changesVars,
      fanoutVars, privacyVars, languageVars, scheduleVars,
      repoTypeVars, paginateVars, tokenVars, statsVars, pagingVars>>
outsideClient ==
    <<cacheVars, apiVars, repoVars, partialVars, flightVars, memoVars,
      snapVars, trafficVars, dispatchVars, poolVars, healthVars,
      evalVars, storeVars, webhookVars, calendarVars, changesVars,
      fanoutVars, privacyVars, languageVars, scheduleVars,
      repoTypeVars, paginateVars, tokenVars, statsVars, pagingVars>>
outsidePool ==
    <<cacheVars, apiVars, repoVars, partialVars, flightVars, memoVars,
      snapVars, trafficVars, dispatchVars, clientVars, healthVars,
      evalVars, storeVars, webhookVars, calendarVars, changesVars,
      fanoutVars, privacyVars, languageVars, scheduleVars,
      repoTypeVars, paginateVars, tokenVars, statsVars, pagingVars>>
outsideHealth ==
    <<cacheVars, apiVars, repoVars, partialVars, flightVars, memoVars,
      snapVars, trafficVars, dispatchVars, clientVars, poolVars,
      evalVars, storeVars, webhookVars, calendarVars, changesVars,
      fanoutVars, privacyVars, languageVars, scheduleVars,
      repoTypeVars, paginateVars, tokenVars, statsVars, pagingVars>>
outsideEval ==
    <<cacheVars, apiVars, repoVars, partialVars, flightVars, memoVars,
      snapVars, trafficVars, dispatchVars, clientVars, poolVars,
      healthVars, storeVars, webhookVars, calendarVars, changesVars,
      fanoutVars, privacyVars, languageVars, scheduleVars,
      repoTypeVars, paginateVars, tokenVars, statsVars, pagingVars>>
outsideStore ==
    <<cacheVars, apiVars, repoVars, partialVars, flightVars, memoVars,
      snapVars, trafficVars, dispatchVars, clientVars, poolVars,
      healthVars, evalVars, webhookVars, calendarVars, changesVars,
      fanoutVars, privacyVars, languageVars, scheduleVars,
      repoTypeVars, paginateVars, tokenVars, statsVars, pagingVars>>
outsideWebhooks ==
    <<cacheVars, apiVars, repoVars, partialVars, flightVars, memoVars,
      snapVars, trafficVars, dispatchVars, clientVars, poolVars,
      healthVars, evalVars, storeVars, calendarVars, changesVars,
      fanoutVars, privacyVars, languageVars, scheduleVars,
      repoTypeVars, paginateVars, tokenVars, statsVars, pagingVars>>
outsideCalendar ==
    <<cacheVars, apiVars, repoVars, partialVars, flightVars, memoVars,
      snapVars, trafficVars, dispatchVars, clientVars, poolVars,
      healthVars, evalVars, storeVars, webhookVars, changesVars,
      fanoutVars, privacyVars, languageVars, scheduleVars,
      repoTypeVars, paginateVars, tokenVars, statsVars, pagingVars>>
outsideChanges ==
    <<cacheVars, apiVars, repoVars, partialVars, flightVars, memoVars,
      snapVars, trafficVars, dispatchVars, clientVars, poolVars,
      healthVars, evalVars, storeVars, webhookVars, calendarVars,
      fanoutVars, privacyVars, languageVars, scheduleVars,
      repoTypeVars, paginateVars, tokenVars, statsVars, pagingVars>>
outsideFanout ==
    <<cacheVars, apiVars, repoVars, partialVars, flightVars, memoVars,
      snapVars, trafficVars, dispatchVars, clientVars, poolVars,
      healthVars, evalVars, storeVars, webhookVars, calendarVars,
      changesVars, privacyVars, languageVars, scheduleVars,
      repoTypeVars, paginateVars, tokenVars, statsVars, pagingVars>>
outsidePrivacy ==
    <<cacheVars, apiVars, repoVars, partialVars, flightVars, memoVars,
      snapVars, trafficVars, dispatchVars, clientVars, poolVars,
      healthVars, evalVars, storeVars, webhookVars, calendarVars,
      changesVars, fanoutVars, languageVars, scheduleVars,
      repoTypeVars, paginateVars, tokenVars, statsVars, pagingVars>>
outsideLanguages ==
    <<cacheVars, apiVars, repoVars, partialVars, flightVars, memoVars,
      snapVars, trafficVars, dispatchVars, clientVars, poolVars,
      healthVars, evalVars, storeVars, webhookVars, calendarVars,
      changesVars, fanoutVars, privacyVars, scheduleVars, repoTypeVars,
      paginateVars, tokenVars, statsVars, pagingVars>>
outsideSchedule ==
    <<cacheVars, apiVars, repoVars, partialVars, flightVars, memoVars,
      snapVars, trafficVars, dispatchVars, clientVars, poolVars,
      healthVars, evalVars, storeVars, webhookVars, calendarVars,
      changesVars, fanoutVars, privacyVars, languageVars, repoTypeVars,
      paginateVars, tokenVars, statsVars, pagingVars>>
outsideRepoType ==
    <<cacheVars, apiVars, repoVars, partialVars, flightVars, memoVars,
      snapVars, trafficVars, dispatchVars, clientVars, poolVars,
      healthVars, evalVars, storeVars, webhookVars, calendarVars,
      changesVars, fanoutVars, privacyVars, languageVars, scheduleVars,
      paginateVars, tokenVars, statsVars, pagingVars>>
outsidePaginate ==
    <<cacheVars, apiVars, repoVars, partialVars, flightVars, memoVars,
      snapVars, trafficVars, dispatchVars, clientVars, poolVars,
      healthVars, evalVars, storeVars, webhookVars, calendarVars,
      changesVars, fanoutVars, privacyVars, languageVars, scheduleVars,
      repoTypeVars, tokenVars, statsVars, pagingVars>>
outsideToken ==
    <<cacheVars, apiVars, repoVars, partialVars, flightVars, memoVars,
      snapVars, trafficVars, dispatchVars, clientVars, poolVars,
      healthVars, evalVars, storeVars, webhookVars, calendarVars,
      changesVars, fanoutVars, privacyVars, languageVars, scheduleVars,
      repoTypeVars, paginateVars, statsVars, pagingVars>>
outsideStats ==
    <<cacheVars, apiVars, repoVars, partialVars, flightVars, memoVars,
      snapVars, trafficVars, dispatchVars, clientVars, poolVars,
      healthVars, evalVars, storeVars, webhookVars, calendarVars,
      changesVars, fanoutVars, privacyVars, languageVars, scheduleVars,
      repoTypeVars, paginateVars, tokenVars, pagingVars>>
outsidePaging ==
    <<cacheVars, apiVars, repoVars, partialVars, flightVars, memoVars,
      snapVars, trafficVars, dispatchVars, clientVars, poolVars,
      healthVars, evalVars, storeVars, webhookVars, calendarVars,
      changesVars, fanoutVars, privacyVars, languageVars, scheduleVars,
      repoTypeVars, paginateVars, tokenVars, statsVars>>

\* Python's None where a payload is expected (a record, so that it compares
\* with payloads)
None == [repos |-> {}, ver |-> -1]
\* no Redis client / no entry / no call yet
NoClient == "none"
NoEntry == [raw |-> <<"json", None>>, expires |-> -1]
NoSet == [value |-> None, at |-> -1, backend |-> "none"]
NoGet == [key |-> <<"", "">>, hit |-> FALSE, value |-> None, backend |-> "none",
          failed |-> FALSE]

-----------------------------------------------------------------------------
(* Bounds and program constants                                            *)

\* _CACHE_TTL = int(os.getenv("CACHE_TTL", "300")), here in clock ticks
CACHE_TTL == 2
\* _CACHE_MAXSIZE = int(os.getenv("CACHE_MAXSIZE", "100"))
CACHE_MAXSIZE == 2
\* the clock stops after MaxTime ticks
MaxTime == 2
\* at most MaxGets cache lookups in one behaviour (bounds _hits + _misses)
MaxGets == 2
\* at most MaxSets cache stores in one behaviour
MaxSets == 3
\* pages of the repository overview query answered to one collect()
MaxPages == 2
\* number of requests in one behaviour
NumRequests == 2
\* PartialCollector.safe calls made by one handler
MaxCalls == 3
\* tasks calling accessors of one collector instance
NumTasks == 3
\* sequential calls of collector operations on one instance
MaxMemoCalls == 3
\* POST /history/snapshot requests in one behaviour
NumSnapshotRequests == 2
\* requests that build a traffic collector in one behaviour
NumTrafficRequests == 2
\* the day the requests run on (days are numbered; day 0 is "0000-00-00")
Today == 3

-----------------------------------------------------------------------------
(* Values                                                                  *)

Usernames == {"alice"}
\* endpoint signatures: the overview key and the keys of /repositories/detailed
\* for visibility public and all (the other parameters at their defaults)
SigOverview == "overview"
SigDetailed(visibility) ==
    IF visibility = "public"
    THEN "repositories_detailed:public:updated:100:False:False:p1:30"
    ELSE "repositories_detailed:all:updated:100:False:False:p1:30"
Endpoints == {SigOverview, SigDetailed("public"), SigDetailed("all")}
CacheKeys == Usernames \X Endpoints

\* str.lower() on the strings of the model
LowerOf == [s \in {"Alice", "True", "TRUE"} |->
              IF s = "Alice" THEN "alice" ELSE "true"]
Lower(s) == IF s \in DOMAIN LowerOf THEN LowerOf[s] ELSE s

\* Repositories GitHub knows for the path user: one public, one private.
PublicRepo == [nameWithOwner |-> "alice/pub", isPrivate |-> FALSE, private |-> FALSE,
               isFork |-> FALSE, fork |-> FALSE, isArchived |-> FALSE, archived |-> FALSE]
PrivateRepo == [nameWithOwner |-> "alice/secret", isPrivate |-> TRUE, private |-> TRUE,
                isFork |-> FALSE, fork |-> FALSE, isArchived |-> FALSE, archived |-> FALSE]
GitHubRepos == {PublicRepo, PrivateRepo}

\* Endpoint payloads: the JSON-shaped dict a handler builds (the repository
\* names it was collected from and the upstream data version it reflects).
Payload(repos, ver) == [repos |-> repos, ver |-> ver]

\* json.dumps(value, default=str) / json.loads(raw): the payloads are dicts of
\* JSON-native values, so decoding the encoded text gives the payload back.
JsonDumps(v) == <<"json", v>>
JsonLoads(raw) == raw[2]

-----------------------------------------------------------------------------
(* api/deps/cache.py                                                       *)

\* _get_redis(): the client, or None.  from_url() assigns the global before
\* ping(): after a first call with REDIS_URL set the global stays set.
get_redis == IF redisConn THEN "client"
             ELSE IF ~redisUrl THEN NoClient
             ELSE IF redisUp THEN "client" ELSE NoClient
get_redis_conn == redisConn \/ redisUrl

\* TTLCache.expire(time): drop the entries whose time has come
Expire(c, t) == SelectSeq(c, LAMBDA e : t < e.expires)

HasKey(c, k) == \E i \in 1..Len(c) : c[i].key = k
Without(c, k) == SelectSeq(c, LAMBDA e : e.key # k)
EntryOf(c, k) == c[CHOOSE i \in 1..Len(c) : c[i].key = k]

\* TTLCache.__contains__ : present and not expired
LocalLive(c, k, t) == HasKey(c, k) /\ t < EntryOf(c, k).expires

\* TTLCache.get(key): the value, or None; a hit makes the key most recent
LocalGetValue(c, k, t) == IF LocalLive(c, k, t) THEN EntryOf(c, k).value ELSE None
LocalGetCache(c, k, t) ==
    IF LocalLive(c, k, t) THEN Append(Without(c, k), EntryOf(c, k)) ELSE c

\* (mutant) eviction of the most recently used entry instead of the least
LocalSetCacheEvictNewest(c, k, v, t) ==
    LET c1 == Expire(c, t)
        c2 == IF HasKey(c1, k) THEN Without(c1, k)
              ELSE IF Len(c1) >= CACHE_MAXSIZE THEN SubSeq(c1, 1, Len(c1) - 1) ELSE c1
    IN Append(c2, [key |-> k, value |-> v, expires |-> t + CACHE_TTL])

\* TTLCache.__setitem__: expire, evict the least recently used entry when a new
\* key finds the cache full, store with expires = time + ttl as most recent
LocalSetCache(c, k, v, t) ==
    LET c1 == Expire(c, t)
        c2 == IF HasKey(c1, k) THEN Without(c1, k)
              ELSE IF Len(c1) >= CACHE_MAXSIZE THEN Tail(c1) ELSE c1
    IN Append(c2, [key |-> k, value |-> v, expires |-> t + CACHE_TTL])

\* the Redis server: r.get(key) of a live key
RedisLive(k) == now < redisStore[k].expires

\* cache_get(username, endpoint) -> (hit, value)
cache_get_result(k) ==
    IF get_redis # NoClient
    THEN IF redisUp /\ RedisLive(k)
         THEN [hit |-> TRUE, value |-> JsonLoads(redisStore[k].raw)]
         ELSE [hit |-> FALSE, value |-> None]
    ELSE IF LocalGetValue(local_cache, k, now) # None
         THEN [hit |-> TRUE, value |-> LocalGetValue(local_cache, k, now)]
         ELSE [hit |-> FALSE, value |-> None]

\* which store a cache_get / cache_set reaches at this moment
GetBackend == IF get_redis # NoClient THEN "redis" ELSE "memory"
SetBackend == IF get_redis # NoClient /\ redisUp THEN "redis" ELSE "memory"

\* the state change of cache_get
cache_get(k) ==
    /\ redisConn' = get_redis_conn
    /\ local_cache' = IF get_redis # NoClient THEN local_cache
                      ELSE LocalGetCache(local_cache, k, now)
    /\ hits' = IF cache_get_result(k).hit THEN hits + 1 ELSE hits
    /\ misses' = IF cache_get_result(k).hit THEN misses ELSE misses + 1
    /\ lastGet' = [key |-> k, hit |-> cache_get_result(k).hit,
                   value |-> cache_get_result(k).value, backend |-> GetBackend,
                   failed |-> (get_redis # NoClient /\ ~redisUp)]
    /\ touched' = [x \in CacheKeys |->
                     IF x # k /\ cache_get_result(k).hit /\ get_redis = NoClient
                     THEN touched[x] \cup {k} ELSE touched[x]]
    /\ UNCHANGED <<redisStore, sets, lastSet>>

\* the state change of cache_set(username, endpoint, value)
cache_set(k, v) ==
    /\ redisConn' = get_redis_conn
    /\ IF get_redis # NoClient /\ redisUp
       THEN /\ redisStore' = [redisStore EXCEPT ![k] =
                                [raw |-> JsonDumps(v), expires |-> now + CACHE_TTL]]
            /\ UNCHANGED local_cache
       ELSE /\ local_cache' = LocalSetCache(local_cache, k, v, now)
            /\ UNCHANGED redisStore
    /\ sets' = sets + 1
    /\ lastSet' = [lastSet EXCEPT ![k] = [value |-> v, at |-> now, backend |-> SetBackend]]
    /\ touched' = [x \in CacheKeys |->
                     IF x = k THEN {}
                     ELSE IF SetBackend = "memory" THEN touched[x] \cup {k}
                     ELSE touched[x]]

InitCache ==
    /\ now = 0
    /\ local_cache = <<>>
    /\ redisUrl \in BOOLEAN
    /\ redisConn = FALSE
    /\ redisUp \in BOOLEAN
    /\ redisStore = [k \in CacheKeys |-> NoEntry]
    /\ hits = 0
    /\ misses = 0
    /\ sets = 0
    /\ lastSet = [k \in CacheKeys |-> NoSet]
    /\ touched = [k \in CacheKeys |-> {}]
    /\ lastGet = NoGet

\* a caller stores a payload; the cache never looks into a value, and every
\* store writes a payload no earlier store wrote, so that a stale read shows
CacheSet ==
    \E k \in CacheKeys :
        /\ sets < MaxSets
        /\ cache_set(k, Payload({"alice/pub"}, sets))
        /\ lastGet' = NoGet
        /\ UNCHANGED <<now, redisUrl, redisUp, hits, misses, outsideCache>>

\* a caller looks a key up
CacheGet ==
    \E k \in CacheKeys :
        /\ hits + misses < MaxGets
        /\ cache_get(k)
        /\ UNCHANGED <<now, redisUrl, redisUp, outsideCache>>

\* time passes
Tick ==
    /\ now < MaxTime
    /\ now' = now + 1
    /\ lastGet' = NoGet
    /\ UNCHANGED <<local_cache, redisUrl, redisConn, redisUp, redisStore,
                   hits, misses, sets, lastSet, touched, outsideCache>>

\* the Redis server goes away or comes back
RedisFlip ==
    /\ redisUrl
    /\ redisUp' = ~redisUp
    /\ lastGet' = NoGet
    /\ UNCHANGED <<now, local_cache, redisUrl, redisConn, redisStore,
                   hits, misses, sets, lastSet, touched, outsideCache>>

NextCache == CacheSet \/ CacheGet \/ Tick \/ RedisFlip

-----------------------------------------------------------------------------
(* C4: cache round trip                                                    *)

\* the cache_get of this step and the last cache_set of its key were answered
\* by the same store, and the lookup did not fail
SameBackend == /\ lastGet.backend = lastSet[lastGet.key].backend
               /\ ~lastGet.failed
GetAfterSet == lastGet # NoGet /\ lastSet[lastGet.key] # NoSet
Elapsed == now - lastSet[lastGet.key].at

-----------------------------------------------------------------------------
(* src/src/utils/helpers.py, src/src/core/repository_filter.py,            *)
(* api/deps/token_scope.py                                                 *)

\* os.getenv of a variable that is not set
Unset == "<unset>"
EnvValues == {Unset, "True", "false"}

\* to_bool(val): None -> False, else str(val).strip().lower() == "true"
to_bool(val) == val # Unset /\ Lower(val) = "true"

\* kwargs.get(key, getenv(name))
KwargOrEnv(kwargs, key, name) ==
    IF key \in DOMAIN kwargs THEN kwargs[key] ELSE environ[name]

\* RepositoryFilter(**kwargs)
RepositoryFilter(kwargs) ==
    [include_forked_repos |->
        to_bool(KwargOrEnv(kwargs, "include_forked_repos", "INCLUDE_FORKED_REPOS")),
     exclude_contrib_repos |->
        to_bool(KwargOrEnv(kwargs, "exclude_contrib_repos", "EXCLUDE_CONTRIB_REPOS")),
     exclude_archive_repos |->
        to_bool(KwargOrEnv(kwargs, "exclude_archive_repos", "EXCLUDE_ARCHIVE_REPOS")),
     exclude_private_repos |->
        to_bool(KwargOrEnv(kwargs, "exclude_private_repos", "EXCLUDE_PRIVATE_REPOS")),
     exclude_public_repos |->
        to_bool(KwargOrEnv(kwargs, "exclude_public_repos", "EXCLUDE_PUBLIC_REPOS")),
     exclude_repos |-> environ.EXCLUDED,
     only_included_repos |-> environ.ONLY_INCLUDED,
     manually_added_repos |-> environ.MORE_REPOS]

\* (mutant) the restricted filter follows the environment like the owner's
resolve_repo_filter_env(user_owns_token) == RepositoryFilter(<<>>)

\* resolve_repo_filter(user_owns_token=...); the keyword value True reaches
\* to_bool as str(True)
resolve_repo_filter(user_owns_token) ==
    IF user_owns_token
    THEN RepositoryFilter(<<>>)
    ELSE RepositoryFilter([exclude_private_repos |-> "True"])

\* (mutant) the type check reads the GraphQL keys only
is_repo_type_excluded_graphql_keys(filter, repo_data) ==
    \/ (~filter.include_forked_repos /\ repo_data.isFork)
    \/ (filter.exclude_archive_repos /\ repo_data.isArchived)
    \/ (filter.exclude_private_repos /\ repo_data.isPrivate)
    \/ (filter.exclude_public_repos /\ ~repo_data.isPrivate)

\* RepoStatsCollector.is_repo_type_excluded(repo_data); a key the payload
\* lacks reads as false
is_repo_type_excluded(filter, repo_data) ==
    \/ (~filter.include_forked_repos /\ (repo_data.isFork \/ repo_data.fork))
    \/ (filter.exclude_archive_repos /\ (repo_data.isArchived \/ repo_data.archived))
    \/ (filter.exclude_private_repos /\ (repo_data.isPrivate \/ repo_data.private))
    \/ (filter.exclude_public_repos /\ ~repo_data.isPrivate /\ ~repo_data.private)

\* a process environment in which none of the filter variables is set
DefaultEnviron ==
    [EXCLUDE_PRIVATE_REPOS |-> Unset, INCLUDE_FORKED_REPOS |-> Unset,
     EXCLUDE_CONTRIB_REPOS |-> Unset, EXCLUDE_ARCHIVE_REPOS |-> Unset,
     EXCLUDE_PUBLIC_REPOS |-> Unset, EXCLUDED |-> {}, ONLY_INCLUDED |-> {},
     MORE_REPOS |-> {}]

-----------------------------------------------------------------------------
(* api/deps/github_token.py and the cached handlers of api/routes/users.py *)

ReqIds == 1..NumRequests
NoToken == ""
ServerToken == "server-token"
Tokens == {"tokA", "tokB"}
\* the login GitHub reports for the owner of a token
TokenLogin(t) == IF t = "tokA" THEN "Alice" ELSE "bob"
\* what GET /user may do for a token: 200 with the owner's login, another
\* status, or a raised aiohttp.ClientError
NoAnswer == [error |-> FALSE, status |-> 0, login |-> ""]
UserAnswers(t) == {[error |-> FALSE, status |-> 200, login |-> TokenLogin(t)],
                   [error |-> FALSE, status |-> 401, login |-> ""],
                   [error |-> TRUE, status |-> 0, login |-> ""]}

\* (mutant) any token that GitHub accepts is taken as the user's
validate_user_token_any(token, username, answer) ==
    IF answer.error THEN FALSE ELSE answer.status = 200

\* _validate_user_token(token, username, session)
validate_user_token(token, username, answer) ==
    IF answer.error THEN FALSE
    ELSE IF answer.status # 200 THEN FALSE
    ELSE Lower(answer.login) = Lower(username)

NoResolved == [token |-> "", repo_filter |-> <<>>, user_owns_token |-> FALSE]
IdleReq == [pc |-> "idle", username |-> "", x_github_token |-> NoToken,
            route |-> "", visibility |-> "", no_cache |-> FALSE,
            answer |-> NoAnswer, resolved |-> NoResolved, endpoint |-> "",
            lookedUp |-> FALSE, collector |-> FALSE, ghCalls |-> 0,
            status |-> 0, xcache |-> "", body |-> None]

\* the routes: the handlers that follow get_user_overview's pattern
\* (overview, languages, streak, repositories, commits/weekly, stats/full,
\* compare) and get_user_repositories_detailed
Targets == {[route |-> "overview", visibility |-> "all"],
            [route |-> "detailed", visibility |-> "all"]}

cacheEnv == <<now, redisUrl, redisUp>>
cacheAll == <<local_cache, redisConn, redisStore, hits, misses, sets, lastSet,
              touched, lastGet>>

\* a request arrives (requests are numbered in their order of arrival)
Arrive(r) ==
    /\ req[r].pc = "idle"
    /\ \A q \in ReqIds : q < r => req[q].pc # "idle"
    /\ \E u \in Usernames, t \in Tokens \cup {NoToken}, g \in Targets, nc \in BOOLEAN :
         req' = [req EXCEPT ![r] = [@ EXCEPT !.pc = "resolve", !.username = u,
                                      !.x_github_token = t, !.route = g.route,
                                      !.visibility = g.visibility, !.no_cache = nc]]
    /\ UNCHANGED <<cacheEnv, cacheAll, environ, outsideApi>>

\* resolve_github_token: the dependency that runs before the handler body
resolve_github_token(r) ==
    IF req[r].x_github_token # NoToken
    THEN \E a \in UserAnswers(req[r].x_github_token) :
           IF validate_user_token(req[r].x_github_token, req[r].username, a)
           THEN req' = [req EXCEPT ![r] =
                    [@ EXCEPT !.pc = "handler", !.answer = a,
                              !.resolved = [token |-> req[r].x_github_token,
                                            repo_filter |-> resolve_repo_filter(TRUE),
                                            user_owns_token |-> TRUE]]]
           ELSE req' = [req EXCEPT ![r] =
                    [@ EXCEPT !.pc = "done", !.answer = a, !.status = 403]]
    ELSE req' = [req EXCEPT ![r] =
                    [@ EXCEPT !.pc = "handler",
                              !.resolved = [token |-> ServerToken,
                                            repo_filter |-> resolve_repo_filter(FALSE),
                                            user_owns_token |-> FALSE]]]

ResolveToken(r) ==
    /\ req[r].pc = "resolve"
    /\ resolve_github_token(r)
    /\ lastGet' = NoGet
    /\ UNCHANGED <<cacheEnv, local_cache, redisConn, redisStore, hits, misses,
                   sets, lastSet, touched, environ, outsideApi>>

\* the endpoint signature a handler computes
EndpointOf(q) ==
    IF q.route = "overview" THEN SigOverview
    ELSE IF ~q.resolved.user_owns_token /\ q.visibility \in {"private", "all"}
         THEN SigDetailed("public")
         ELSE SigDetailed(q.visibility)

\* the handler up to its first await: the cache lookup unless no_cache, then
\* either the cached answer or the construction of the collector / client
Handler(r) ==
    /\ req[r].pc = "handler"
    /\ LET endpoint == EndpointOf(req[r])
           k == <<req[r].username, endpoint>>
       IN IF ~req[r].no_cache
          THEN /\ cache_get(k)
               /\ IF cache_get_result(k).hit
                  THEN req' = [req EXCEPT ![r] =
                          [@ EXCEPT !.pc = "done", !.endpoint = endpoint,
                                    !.lookedUp = TRUE, !.status = 200,
                                    !.xcache = "HIT",
                                    !.body = cache_get_result(k).value]]
                  ELSE req' = [req EXCEPT ![r] =
                          [@ EXCEPT !.pc = "collecting", !.endpoint = endpoint,
                                    !.lookedUp = TRUE, !.collector = TRUE]]
          ELSE /\ req' = [req EXCEPT ![r] =
                          [@ EXCEPT !.pc = "collecting", !.endpoint = endpoint,
                                    !.collector = TRUE]]
               /\ lastGet' = NoGet
               /\ UNCHANGED <<local_cache, redisConn, redisStore, hits, misses,
                              sets, lastSet, touched>>
    /\ UNCHANGED <<cacheEnv, environ, outsideApi>>

\* type=... of GET users/{username}/repos
ReposOfType(answer, visibility) ==
    IF visibility = "public" THEN {n \in answer : ~n.private} ELSE answer

\* the repositories a handler's payload is built from, given what GitHub
\* returns to this request
CollectedRepos(q, answer) ==
    IF q.route = "overview"
    THEN {n \in answer : ~is_repo_type_excluded(q.resolved.repo_filter, n)}
    ELSE {n \in ReposOfType(answer, IF q.endpoint = SigDetailed("public")
                                    THEN "public" ELSE "all") :
            ~(~q.resolved.user_owns_token /\ n.private)}

Names(repos) == {n.nameWithOwner : n \in repos}

\* /repositories/detailed returns early, without cache_set, when GitHub
\* returns no repository
ReturnsEarly(q, answer) ==
    /\ q.route = "detailed"
    /\ ReposOfType(answer, IF q.endpoint = SigDetailed("public")
                           THEN "public" ELSE "all") = {}

\* the rest of the handler: collection, cache_set, X-Cache: MISS
Collect(r) ==
    /\ req[r].pc = "collecting"
    /\ \E answer \in SUBSET GitHubRepos :
         LET data == Payload(Names(CollectedRepos(req[r], answer)), r)
             k == <<req[r].username, req[r].endpoint>>
         IN /\ req' = [req EXCEPT ![r] =
                         [@ EXCEPT !.pc = "done", !.ghCalls = 1, !.status = 200,
                                   !.xcache = "MISS", !.body = data]]
            /\ IF ReturnsEarly(req[r], answer)
               THEN UNCHANGED <<local_cache, redisConn, redisStore, sets, lastSet,
                                touched>>
               ELSE cache_set(k, data)
    /\ lastGet' = NoGet
    /\ UNCHANGED <<cacheEnv, hits, misses, environ, outsideApi>>

InitApi ==
    /\ environ = DefaultEnviron
    /\ req = [r \in ReqIds |-> IdleReq]

NextApi ==
    \/ \E r \in ReqIds : Arrive(r)
    \/ \E r \in ReqIds : ResolveToken(r)
    \/ \E r \in ReqIds : Handler(r)
    \/ \E r \in ReqIds : Collect(r)

-----------------------------------------------------------------------------
(* Properties of the request pipeline                                      *)

\* C1: a response to a caller without a validated token for the user never
\* contains data derived from the user's private repositories, whatever was
\* cached before under the same (username, endpoint) key.
NoPrivateDataForNonOwner ==
    \A r \in ReqIds :
        (req[r].pc = "done" /\ req[r].status = 200
            /\ ~req[r].resolved.user_owns_token)
        => PrivateRepo.nameWithOwner \notin req[r].body.repos

\* GET /user answered 200 with a login equal to the path username, ignoring case
LoginMatches(q) ==
    /\ ~q.answer.error
    /\ q.answer.status = 200
    /\ Lower(q.answer.login) = Lower(q.username)

NoCacheStep(r) ==
    LET k == <<req[r].username, req'[r].endpoint>>
    IN /\ (req[r].pc = "handler" /\ req'[r].pc # "handler" /\ req[r].no_cache)
          => (req'[r].pc = "collecting" /\ hits' = hits /\ misses' = misses)
       /\ (req[r].pc = "handler" /\ req'[r].pc # "handler" /\ ~req[r].no_cache)
          => /\ lastGet'.key = k
             /\ IF lastGet'.hit
                THEN /\ req'[r].pc = "done"
                     /\ req'[r].xcache = "HIT"
                     /\ req'[r].body = lastGet'.value
                ELSE req'[r].pc = "collecting"
       /\ (req[r].pc = "collecting" /\ req'[r].pc = "done")
          => /\ req'[r].xcache = "MISS"
             /\ req[r].no_cache
                => (sets' = sets + 1 /\ lastSet'[k].value = req'[r].body)

NoCacheBypassesAndReplaces == [][\A r \in ReqIds : NoCacheStep(r)]_vars

-----------------------------------------------------------------------------
(* src/core/repo_stats_collector.py: RepoStatsCollector.collect            *)

RECURSIVE SumFn(_, _)
\* sum(f[x] for x in S)
SumFn(f, S) ==
    IF S = {} THEN 0
    ELSE LET x == CHOOSE y \in S : TRUE IN f[x] + SumFn(f, S \ {x})

\* a repository as a payload describes it; a key the payload lacks reads as
\* FALSE / 0.  GraphQL nodes carry isPrivate/isFork/isArchived, REST
\* payloads carry private/fork/archived.
GraphQLNode(name, isPrivate, isFork, stars, forks, isEmpty, langSize) ==
    [nameWithOwner |-> name, isPrivate |-> isPrivate, private |-> FALSE,
     isFork |-> isFork, fork |-> FALSE, isArchived |-> FALSE, archived |-> FALSE,
     stars |-> stars, forks |-> forks, empty |-> isEmpty, langSize |-> langSize]
RestRepo(name, private, stars, forks, size) ==
    [nameWithOwner |-> name, isPrivate |-> FALSE, private |-> private,
     isFork |-> FALSE, fork |-> FALSE, isArchived |-> FALSE, archived |-> FALSE,
     stars |-> stars, forks |-> forks, empty |-> (size = 0), langSize |-> size]
\* the body of a REST answer that describes no repository (404 body, or the
\* empty dict after too many 202s): no flag, no count, no "size" key
RestNoRepo(name) ==
    [nameWithOwner |-> name, isPrivate |-> FALSE, private |-> FALSE,
     isFork |-> FALSE, fork |-> FALSE, isArchived |-> FALSE, archived |-> FALSE,
     stars |-> 0, forks |-> 0, empty |-> FALSE, langSize |-> 0]

\* the nodes of viewer.repositories: the query sets no ownerAffiliations, so
\* the connection also holds repositories of other accounts the viewer
\* collaborates on ("org/shared")
OwnedNodes == {GraphQLNode("alice/pub", FALSE, FALSE, 1, 1, FALSE, 2),
               GraphQLNode("alice/secret", TRUE, FALSE, 2, 0, FALSE, 1),
               GraphQLNode("alice/forked", FALSE, TRUE, 0, 0, TRUE, 0),
               GraphQLNode("org/shared", FALSE, FALSE, 1, 1, FALSE, 1)}
\* the nodes of viewer.repositoriesContributedTo; "alice/pub" is in both
\* connections
ContribNodes == {GraphQLNode("org/lib", FALSE, FALSE, 1, 0, FALSE, 1),
                 GraphQLNode("alice/pub", FALSE, FALSE, 1, 1, FALSE, 2)}
ManualRepos == {"alice/secret", "org/tool"}
\* what GET /repos/{repo} may answer
RestAnswers(repo) ==
    {RestNoRepo(repo),
     IF repo = "alice/secret" THEN RestRepo(repo, TRUE, 2, 0, 1)
                              ELSE RestRepo(repo, FALSE, 1, 1, 0)}

IsPrivate(n) == n.isPrivate \/ n.private

\* (mutant) a name that is in repos already is taken again
is_repo_name_invalid_unseen(filter, repos, repo_name) ==
    IF repo_name = "" THEN TRUE
    ELSE \/ (Cardinality(filter.only_included_repos) > 0
             /\ repo_name \notin filter.only_included_repos)
         \/ repo_name \in filter.exclude_repos

\* RepoStatsCollector.is_repo_name_invalid(repo_name)
is_repo_name_invalid(filter, repos, repo_name) ==
    IF repo_name = "" THEN TRUE
    ELSE \/ repo_name \in repos
         \/ (Cardinality(filter.only_included_repos) > 0
             /\ repo_name \notin filter.only_included_repos)
         \/ repo_name \in filter.exclude_repos

\* the nodes of one page that pass both checks of the loop body
Accepted(c, nodes) ==
    {n \in nodes : /\ ~is_repo_type_excluded(c.filter, n)
                   /\ ~is_repo_name_invalid(c.filter, c.repos, n.nameWithOwner)}

\* the loop body of collect() / _process_manually_added_repos applied to the
\* accepted payloads: repos, visibility, stargazers, forks, empty repos and
\* (for non-empty repositories) language sizes
AddRepos(c, added) ==
    [c EXCEPT !.repos = @ \cup Names(added),
              !.repo_visibility = @ \cup {<<n.nameWithOwner, IsPrivate(n)>> : n \in added},
              !.stargazers = @ + SumFn([n \in added |-> n.stars], added),
              !.forks = @ + SumFn([n \in added |-> n.forks], added),
              !.empty_repos = @ \cup Names({n \in added : n.empty}),
              !.languages = @ + SumFn([n \in added |-> n.langSize],
                                      {n \in added : ~n.empty}),
              !.counted = @ \cup added]

NewCollector(owns) ==
    [pc |-> "new", owns |-> owns, filter |-> resolve_repo_filter(owns),
     repos |-> {}, repo_visibility |-> {}, stargazers |-> 0, forks |-> 0,
     empty_repos |-> {}, languages |-> 0, pages |-> 0, todo |-> {},
     offered |-> {}, counted |-> {}, again |-> {}]

\* collect(): the assignments before the loop
CollectStart ==
    /\ rc.pc = "new"
    /\ rc' = [rc EXCEPT !.pc = "paging"]
    /\ UNCHANGED <<environ, outsideRepo>>

\* one iteration of the while loop: a page of owned and contributed
\* repositories, the loop over its nodes, and the pageInfo test
CollectPage ==
    /\ rc.pc = "paging"
    /\ \E owned \in SUBSET OwnedNodes, contrib \in SUBSET ContribNodes,
          hasNextPage \in BOOLEAN :
         LET contributed == IF ~rc.filter.exclude_contrib_repos THEN contrib ELSE {}
             repos == owned \cup contributed
             c0 == AddRepos([rc EXCEPT !.offered = @ \cup repos,
                                       !.pages = @ + 1,
                                       !.again = @ \cup (Names(owned) \cap rc.repos)],
                            Accepted(rc, owned))
             c1 == AddRepos([c0 EXCEPT !.again = @ \cup (Names(contributed) \cap c0.repos)],
                            Accepted(c0, contributed))
         IN /\ hasNextPage => rc.pages + 1 < MaxPages
            /\ rc' = IF hasNextPage THEN c1
                     ELSE IF ~rc.filter.exclude_contrib_repos
                          THEN [c1 EXCEPT !.pc = "manual",
                                          !.todo = rc.filter.manually_added_repos]
                          ELSE [c1 EXCEPT !.pc = "done"]
    /\ UNCHANGED <<environ, outsideRepo>>

\* one iteration of the loop of _process_manually_added_repos
CollectManual ==
    /\ rc.pc = "manual"
    /\ \E repo \in rc.todo :
         IF is_repo_name_invalid(rc.filter, rc.repos, repo)
         THEN rc' = [rc EXCEPT !.todo = @ \ {repo},
                               !.again = @ \cup ({repo} \cap rc.repos)]
         ELSE \E repo_stats \in RestAnswers(repo) :
                rc' = AddRepos([rc EXCEPT !.todo = @ \ {repo},
                                          !.offered = @ \cup {repo_stats}],
                               {n \in {repo_stats} :
                                  ~is_repo_type_excluded(rc.filter, n)})
    /\ UNCHANGED <<environ, outsideRepo>>

\* the end of collect()
CollectFinish ==
    /\ rc.pc = "manual"
    /\ rc.todo = {}
    /\ rc' = [rc EXCEPT !.pc = "done"]
    /\ UNCHANGED <<environ, outsideRepo>>

\* the environments a collector may be built in
RepoEnvirons ==
    {[DefaultEnviron EXCEPT !.EXCLUDE_PRIVATE_REPOS = p,
                            !.EXCLUDE_CONTRIB_REPOS = c,
                            !.INCLUDE_FORKED_REPOS = f,
                            !.MORE_REPOS = m] :
        p \in EnvValues, c \in {Unset, "true"}, f \in {Unset, "TRUE"},
        m \in {{}, ManualRepos}}
    \cup
    {[DefaultEnviron EXCEPT !.EXCLUDED = x, !.ONLY_INCLUDED = w,
                            !.MORE_REPOS = ManualRepos] :
        x \in {{}, {"org/lib"}}, w \in {{}, {"alice/pub", "alice/secret", "org/lib"}}}

InitRepo ==
    /\ environ \in RepoEnvirons
    /\ \E owns \in BOOLEAN : rc = NewCollector(owns)

\* the collector at rest, for the specifications that do not move it
IdleRepo == rc = [pc |-> "none"]

NextRepo == CollectStart \/ CollectPage \/ CollectManual \/ CollectFinish

\* C3: a collector built for a request that does not own the token has
\* exclude_private_repos set whatever EXCLUDE_PRIVATE_REPOS says, and no
\* payload flagged isPrivate/private is ever counted: repos, stargazers,
\* forks and language sizes are those of the counted, unflagged payloads.
RestrictedCollectorSkipsPrivate ==
    ~rc.owns
    => /\ rc.filter.exclude_private_repos
       /\ \A n \in rc.offered : IsPrivate(n) => n \notin rc.counted
       /\ rc.repos = Names({n \in rc.offered : n \in rc.counted /\ ~IsPrivate(n)})
       /\ rc.stargazers = SumFn([n \in rc.counted |-> n.stars],
                                {n \in rc.counted : ~IsPrivate(n)})
       /\ rc.forks = SumFn([n \in rc.counted |-> n.forks],
                           {n \in rc.counted : ~IsPrivate(n)})
       /\ rc.languages = SumFn([n \in rc.counted |-> n.langSize],
                               {n \in rc.counted : ~IsPrivate(n) /\ ~n.empty})

\* a finished restricted collection that was offered a private GraphQL node
\* and a private manually added repository, with EXCLUDE_PRIVATE_REPOS=false
RestrictedCollectorWitness ==
    /\ ~rc.owns
    /\ rc.pc = "done"
    /\ environ.EXCLUDE_PRIVATE_REPOS = "false"
    /\ \E n \in rc.offered : n.isPrivate
    /\ \E n \in rc.offered : n.private
    /\ rc.repos # {}

\* C37: each full_name is counted at most once in repos, stargazers, forks
\* and the language sizes, however often it is offered (on several pages, in
\* both connections, in the manually added list); and every name in repos is
\* outside the exclusion list and inside a non-empty whitelist.
DeduplicatedByFullName ==
    rc # [pc |-> "none"] =>
        /\ \A n1, n2 \in rc.counted :
              n1.nameWithOwner = n2.nameWithOwner => n1 = n2
        /\ rc.repos = Names(rc.counted)
        /\ rc.stargazers = SumFn([n \in rc.counted |-> n.stars], rc.counted)
        /\ rc.forks = SumFn([n \in rc.counted |-> n.forks], rc.counted)
        /\ rc.languages = SumFn([n \in rc.counted |-> n.langSize],
                                {n \in rc.counted : ~n.empty})
        /\ \A name \in rc.repos :
              /\ name \notin rc.filter.exclude_repos
              /\ rc.filter.only_included_repos # {}
                    => name \in rc.filter.only_included_repos

\* a finished collection of several pages in which a repository of both
\* connections and a manually added one were offered again after they had
\* been counted, under a whitelist
DeduplicatedWitness ==
    /\ rc.pc = "done"
    /\ rc.pages > 1
    /\ {"alice/pub", "alice/secret"} \subseteq rc.again
    /\ rc.filter.only_included_repos # {}
    /\ "org/lib" \in Names(rc.offered) \ rc.repos

-----------------------------------------------------------------------------
(* api/services/stats_service.py: PartialCollector                         *)

Labels == {"name", "repositories"}
\* the default a handler passes for a label
DefaultOf(label) == IF label = "name" THEN "None" ELSE "set()"
\* what the awaited collector call does: return a value (possibly None) or
\* raise an Exception whose str() is the error text (possibly empty)
Outcomes == {[raised |-> FALSE, value |-> "v", error |-> ""],
             [raised |-> FALSE, value |-> "None", error |-> ""],
             [raised |-> TRUE, value |-> "", error |-> "boom"],
             [raised |-> TRUE, value |-> "", error |-> ""]}

\* f"{label} unavailable: {exc}"
WarningMsg(label, exc) == <<label, " unavailable: ", exc>>

\* (mutant) the fragment always carries the key
warnings_payload_always(warnings) == [warnings |-> warnings]

\* PartialCollector.warnings_payload(): {"warnings": [...]} or {}
warnings_payload(warnings) ==
    IF warnings # <<>> THEN [warnings |-> warnings] ELSE <<>>

\* PartialCollector.safe(coro, default, label): the value returned
safe_result(outcome, default) ==
    IF outcome.raised THEN default ELSE outcome.value

\* PartialCollector.safe(coro, default, label): _warnings afterwards
safe_warnings(warnings, outcome, label) ==
    IF outcome.raised THEN Append(warnings, WarningMsg(label, outcome.error))
    ELSE warnings

NoResponse == [status |-> 0, data |-> <<>>, extra |-> <<>>]

InitPartial ==
    pcw = [pc |-> "collecting", warnings |-> <<>>, calls |-> <<>>,
           response |-> NoResponse]

\* the component at rest, for the specifications that do not move it
IdlePartial == pcw = [pc |-> "none"]

\* value = await pc.safe(collector.get_x(), default, label)
PartialSafe ==
    /\ pcw.pc = "collecting"
    /\ Len(pcw.calls) < MaxCalls
    /\ \E label \in Labels, outcome \in Outcomes :
         pcw' = [pcw EXCEPT
                   !.warnings = safe_warnings(@, outcome, label),
                   !.calls = Append(@, [label |-> label, outcome |-> outcome,
                                        default |-> DefaultOf(label),
                                        returned |-> safe_result(outcome,
                                                                 DefaultOf(label))])]
    /\ UNCHANGED outsidePartial

\* data = {..., **pc.warnings_payload()}; return data
PartialRespond ==
    /\ pcw.pc = "collecting"
    /\ pcw' = [pcw EXCEPT
                 !.pc = "done",
                 !.response = [status |-> 200,
                               data |-> [i \in 1..Len(pcw.calls) |->
                                            pcw.calls[i].returned],
                               extra |-> warnings_payload(pcw.warnings)]]
    /\ UNCHANGED outsidePartial

NextPartial == PartialSafe \/ PartialRespond

\* the calls that raised, in call order
FailedCalls == SelectSeq(pcw.calls, LAMBDA c : c.outcome.raised)
ExpectedWarnings ==
    [i \in 1..Len(FailedCalls) |->
        <<FailedCalls[i].label, " unavailable: ", FailedCalls[i].outcome.error>>]

\* C6: every safe call that raised returned its default and added exactly
\* one warning "<label> unavailable: <error>", every other call returned
\* its result and added none; the response fragment has a "warnings" key
\* iff some call failed, listing the warnings in call order, and the
\* endpoint answers 200 with the fallbacks in place.
PartialCollectorContract ==
    /\ \A i \in 1..Len(pcw.calls) :
          pcw.calls[i].returned = IF pcw.calls[i].outcome.raised
                                  THEN pcw.calls[i].default
                                  ELSE pcw.calls[i].outcome.value
    /\ pcw.warnings = ExpectedWarnings
    /\ ("warnings" \in DOMAIN warnings_payload(pcw.warnings)) <=> (Len(FailedCalls) > 0)
    /\ pcw.pc = "done"
       => /\ pcw.response.status = 200
          /\ Len(pcw.response.data) = Len(pcw.calls)
          /\ \A i \in 1..Len(pcw.calls) :
                pcw.calls[i].outcome.raised
                => pcw.response.data[i] = pcw.calls[i].default
          /\ ("warnings" \in DOMAIN pcw.response.extra) <=> (Len(FailedCalls) > 0)
          /\ Len(FailedCalls) > 0
             => pcw.response.extra.warnings = ExpectedWarnings

\* a response after a failure, a success and a second failure
PartialCollectorWitness ==
    /\ pcw.pc = "done"
    /\ Len(pcw.calls) = 3
    /\ pcw.calls[1].outcome.raised
    /\ ~pcw.calls[2].outcome.raised
    /\ pcw.calls[3].outcome.raised
    /\ pcw.calls[1].label # pcw.calls[3].label
    /\ Len(pcw.response.extra.warnings) = 2

-----------------------------------------------------------------------------
(* src/utils/decorators.py: lazy_async_property, and the loaders of        *)
(* src/core/stats_collector.py it guards (get_stats, the contribution      *)
(* calendar, lines_changed): check the cached attribute, await the loader, *)
(* read the attribute again                                                *)

Tasks == 1..NumTasks
Loaders == {"get_stats", "_get_contribution_calendar", "lines_changed"}
\* the attribute an accessor reads, unset
NoneAttr == "None"
\* what a loader stores when it completes
LoadedValue(l) == <<"loaded", l>>

IdleTask == [pc |-> "idle", loader |-> "", result |-> NoneAttr]

InitFlight ==
    fl = [cached |-> [l \in Loaders |-> NoneAttr],
          runs |-> [l \in Loaders |-> 0],
          queries |-> [l \in Loaders |-> 0],
          task |-> [t \in Tasks |-> IdleTask]]

\* the component at rest, for the specifications that do not move it
IdleFlight == fl = [pc |-> "none"]

\* wrapper(self) up to its first suspension: the cached value if there is
\* one, else the loader is entered and runs up to its first query
AccessorCall(t) ==
    /\ fl.task[t].pc = "idle"
    /\ \E l \in Loaders :
         IF fl.cached[l] # NoneAttr
         THEN fl' = [fl EXCEPT !.task[t] = [pc |-> "done", loader |-> l,
                                            result |-> fl.cached[l]]]
         ELSE fl' = [fl EXCEPT !.task[t] = [pc |-> "loading", loader |-> l,
                                            result |-> NoneAttr],
                               !.runs[l] = @ + 1,
                               !.queries[l] = @ + 1]
    /\ UNCHANGED outsideFlight

\* the loader's queries are answered: it stores its result and returns, and
\* the wrapper reads the attribute again
LoaderReturn(t) ==
    /\ fl.task[t].pc = "loading"
    /\ LET l == fl.task[t].loader
       IN fl' = [fl EXCEPT !.cached[l] = LoadedValue(l),
                           !.task[t] = [pc |-> "done", loader |-> l,
                                        result |-> LoadedValue(l)]]
    /\ UNCHANGED outsideFlight

NextFlight ==
    \/ \E t \in Tasks : AccessorCall(t)
    \/ \E t \in Tasks : LoaderReturn(t)

\* C7: single-flight: however the calls of the tasks overlap, each loader of
\* one instance executes at most once and issues its queries at most once
\* (exactly once, once some task has called an accessor it backs).
SingleFlight ==
    \A l \in Loaders :
        /\ fl.runs[l] <= 1
        /\ fl.queries[l] <= 1
        /\ (\E t \in Tasks : fl.task[t].loader = l) => fl.runs[l] = 1

-----------------------------------------------------------------------------
(* The memoising operations of the collectors:                             *)
(* ContributionTracker.fetch_total_contributions / fetch_contribution_     *)
(* calendar, TrafficCollector.fetch_views / fetch_clones,                  *)
(* CodeChangeAnalyzer.analyze, EngagementCollector.fetch_pull_requests /   *)
(* fetch_issues / fetch_collaborators                                      *)

MemoOps == {"fetch_total_contributions", "fetch_contribution_calendar",
            "fetch_views", "fetch_clones", "analyze", "fetch_pull_requests",
            "fetch_issues", "fetch_collaborators"}

\* an Optional value: <<>> is None, <<v>> is the value v
NoneOpt == <<>>
Some(v) == <<v>>

\* the totals a fetch may compute
FetchedCounts == {0, 2}

\* the memo attribute a successful fetch stores: a count, or the calendar
\* dict {"days": [...]} (here by the number of days)
StoredBy(op, n) ==
    IF op = "fetch_contribution_calendar" THEN [days |-> n] ELSE n

\* what the operation returns for a stored attribute:
\* fetch_contribution_calendar returns None, the others the attribute
ReturnedFor(op, attr) ==
    IF op = "fetch_contribution_calendar" THEN NoneOpt ELSE attr

\* the attribute a fetch that raises leaves behind:
\* fetch_total_contributions has assigned 0 before its first query
LeftByFailure(op) ==
    IF op = "fetch_total_contributions" THEN Some(0) ELSE NoneOpt

\* (mutant) "if self._x:": a stored 0 counts as not fetched (the calendar
\* dict is never empty, so it counts as fetched)
IsMemoisedTruthy(attr) == attr # NoneOpt /\ ToString(attr[1]) # "0"

\* "if self._x is not None"
IsMemoised(attr) == attr # NoneOpt

NoCall == [op |-> "", raised |-> FALSE, returned |-> NoneOpt, issued |-> 0,
           after |-> NoneOpt]

InitMemo ==
    memo = [attr |-> [op \in MemoOps |-> NoneOpt],
            queries |-> [op \in MemoOps |-> 0],
            completed |-> [op \in MemoOps |-> NoneOpt],
            calls |-> 0,
            last |-> NoCall]

\* the component at rest, for the specifications that do not move it
IdleMemo == memo = [pc |-> "none"]

\* one call, run to completion before the next one starts: the memoised
\* value, or a fetch that succeeds with a total or raises
MemoCall(op) ==
    /\ memo.calls < MaxMemoCalls
    /\ IF IsMemoised(memo.attr[op])
       THEN memo' = [memo EXCEPT
                       !.calls = @ + 1,
                       !.completed[op] =
                           IF @ = NoneOpt
                           THEN Some(ReturnedFor(op, memo.attr[op])) ELSE @,
                       !.last = [op |-> op, raised |-> FALSE,
                                 returned |-> ReturnedFor(op, memo.attr[op]),
                                 issued |-> 0, after |-> memo.completed[op]]]
       ELSE \E n \in FetchedCounts, raises \in BOOLEAN :
              memo' = [memo EXCEPT
                         !.calls = @ + 1,
                         !.queries[op] = @ + 1,
                         !.attr[op] = IF raises THEN LeftByFailure(op)
                                      ELSE Some(StoredBy(op, n)),
                         !.completed[op] =
                             IF raises \/ @ # NoneOpt THEN @
                             ELSE Some(ReturnedFor(op, Some(StoredBy(op, n)))),
                         !.last = [op |-> op, raised |-> raises,
                                   returned |-> IF raises THEN NoneOpt
                                                ELSE ReturnedFor(op, Some(StoredBy(op, n))),
                                   issued |-> 1, after |-> memo.completed[op]]]
    /\ UNCHANGED outsideMemo

NextMemo == \E op \in MemoOps : MemoCall(op)

\* C8: a call of an operation that has completed successfully before on the
\* instance returns what that completion returned and issues no query.
MemoisedAfterSuccess ==
    memo.last.after # NoneOpt
    => /\ ~memo.last.raised
       /\ memo.last.returned = memo.last.after[1]
       /\ memo.last.issued = 0

\* a repeated call after a successful fetch whose total was 0
MemoisedWitness ==
    /\ memo.last.op = "fetch_views"
    /\ memo.last.after = Some(Some(0))
    /\ memo.queries["fetch_views"] = 1
    /\ memo.calls = 2

\* C36: a fetch that raised leaves the memo attribute of its operation unset,
\* so the next call on the instance fetches again; stated for
\* fetch_total_contributions, whose code StatsCollector.total_contributions
\* repeats.
FailedFetchNotMemoised ==
    (memo # [pc |-> "none"] /\ memo.last.op = "fetch_total_contributions")
    => /\ memo.last.raised => memo.attr[memo.last.op] = NoneOpt
       /\ memo.last.after = NoneOpt => memo.last.issued = 1

-----------------------------------------------------------------------------
(* api/routes/history.py: create_snapshot;                                 *)
(* api/services/notification_dispatcher.py: dispatch_webhooks              *)

SnapReqIds == 1..NumSnapshotRequests

\* the statistics a collection may yield (the fields the conditions read)
SnapshotData ==
    [total_stars : {1, 2}, current_streak : {0, 1}, total_contributions : {1, 2}]

\* the collector calls that raise during one collection
FailedCollections == SUBSET {"total_stars", "current_streak", "total_contributions"}

\* PartialCollector.safe(coro, default, label): the result of the call, or
\* the default when the call raised
safe(raised, result, default) == IF raised THEN default ELSE result

\* the webhooks registered for the user, in the order list_by_user returns them
Hooks == <<[id |-> 1, conditions |-> [stars_threshold |-> Some(2),
                                      streak_broken |-> FALSE,
                                      contributions_record |-> FALSE]],
           [id |-> 2, conditions |-> [stars_threshold |-> NoneOpt,
                                      streak_broken |-> TRUE,
                                      contributions_record |-> TRUE]]>>

\* dict.get(key, default)
Get(d, key, default) == IF key \in DOMAIN d THEN d[key] ELSE default

\* (variant) a previous value equal to the threshold counts as below it
check_threshold_from_equal(threshold, current, previous) ==
    /\ Get(previous, "total_stars", 0) <= threshold
    /\ threshold <= Get(current, "total_stars", 0)

\* (variant) only a current value equal to the threshold counts as a crossing
check_threshold_reached_exactly(threshold, current, previous) ==
    /\ Get(previous, "total_stars", 0) < threshold
    /\ threshold = Get(current, "total_stars", 0)

\* _check_threshold(field, threshold, current, previous), field = total_stars
check_threshold(threshold, current, previous) ==
    /\ Get(previous, "total_stars", 0) < threshold
    /\ threshold <= Get(current, "total_stars", 0)

\* evaluate_conditions(conditions, current, previous): the triggered events
evaluate_conditions(conditions, current, previous) ==
    LET stars_threshold == Get(conditions, "stars_threshold", NoneOpt)
        prev_streak == Get(previous, "current_streak", 0)
        cur_streak == Get(current, "current_streak", 0)
        prev_contribs == Get(previous, "total_contributions", 0)
        cur_contribs == Get(current, "total_contributions", 0)
    IN (IF stars_threshold # NoneOpt
           /\ check_threshold(stars_threshold[1], current, previous)
        THEN <<<<"Stars crossed", stars_threshold[1]>>>> ELSE <<>>)
       \o (IF Get(conditions, "streak_broken", FALSE)
              /\ prev_streak > 0 /\ cur_streak = 0
           THEN <<<<"Streak broken">>>> ELSE <<>>)
       \o (IF Get(conditions, "contributions_record", FALSE)
              /\ cur_contribs > prev_contribs /\ prev_contribs > 0
           THEN <<<<"New contributions record", cur_contribs>>>> ELSE <<>>)

\* snapshot_store.get_latest_snapshot(username): the position of the latest
\* snapshot, 0 for None
get_latest_snapshot == Len(snapshots)

\* snapshot_store.save_snapshot(username, data), with the position of the
\* snapshot the webhooks were evaluated against (0: none)
save_snapshot(r, data, previous) ==
    snapshots' = Append(snapshots, [data |-> data, by |-> r, previous |-> previous,
                                    failed |-> sreq[r].failed])

\* the hooks of the list, from position i on, whose conditions trigger
RECURSIVE MatchingFrom(_, _, _)
MatchingFrom(i, current, previous) ==
    IF i > Len(Hooks) THEN <<>>
    ELSE (IF evaluate_conditions(Hooks[i].conditions, current, previous) # <<>>
          THEN <<i>> ELSE <<>>) \o MatchingFrom(i + 1, current, previous)

IdleSnapReq == [pc |-> "idle", data |-> CHOOSE d \in SnapshotData : TRUE,
                previous |-> 0, todo |-> <<>>, failed |-> {}]

\* a stored snapshot of an earlier day
EarlierSnapshot ==
    [data |-> [total_stars |-> 1, current_streak |-> 1, total_contributions |-> 1],
     by |-> 0, previous |-> 0, failed |-> {}]

InitSnapshots ==
    /\ snapshots \in {<<>>, <<EarlierSnapshot>>}
    /\ notified = <<>>
    /\ sreq = [r \in SnapReqIds |-> IdleSnapReq]

\* the component at rest, for the specifications that do not move it
IdleSnapshots ==
    /\ snapshots = <<>>
    /\ notified = <<>>
    /\ sreq = <<>>

\* create_snapshot up to "data = {...}": the collector calls, each through
\* pc.safe with the default 0 (failed is kept beside the request and the
\* snapshot for the properties only: the code stores data alone)
SnapshotCollect(r) ==
    /\ sreq[r].pc = "idle"
    /\ \E d \in SnapshotData, failed \in FailedCollections :
         sreq' = [sreq EXCEPT ![r] =
                    [@ EXCEPT !.pc = "collected", !.failed = failed,
                              !.data = [f \in DOMAIN d |-> safe(f \in failed, d[f], 0)]]]
    /\ UNCHANGED <<snapshots, notified, outsideSnap>>

\* dispatch_webhooks up to its first POST: read the latest snapshot and
\* evaluate the hooks in order; without a previous snapshot or a triggered
\* hook it returns, and create_snapshot saves, without suspending
DispatchWebhooks(r) ==
    /\ sreq[r].pc = "collected"
    /\ LET previous == get_latest_snapshot
           todo == IF previous = 0 THEN <<>>
                   ELSE MatchingFrom(1, sreq[r].data, snapshots[previous].data)
       IN IF todo = <<>>
          THEN /\ save_snapshot(r, sreq[r].data, previous)
               /\ sreq' = [sreq EXCEPT ![r] = [@ EXCEPT !.pc = "done",
                                                        !.previous = previous]]
          ELSE /\ sreq' = [sreq EXCEPT ![r] = [@ EXCEPT !.pc = "posting",
                                                        !.previous = previous,
                                                        !.todo = todo]]
               /\ UNCHANGED snapshots
    /\ UNCHANGED <<notified, outsideSnap>>

\* the POST in flight completes (answered, or failed without reaching the
\* endpoint); the loop goes on to the next triggered hook, and after the
\* last one dispatch_webhooks returns and create_snapshot saves
WebhookPosted(r) ==
    /\ sreq[r].pc = "posting"
    /\ \E reached \in BOOLEAN :
         notified' = IF reached
                     THEN Append(notified, [hook |-> Hooks[Head(sreq[r].todo)].id,
                                            previous |-> sreq[r].previous,
                                            by |-> r])
                     ELSE notified
    /\ IF Len(sreq[r].todo) = 1
       THEN /\ save_snapshot(r, sreq[r].data, sreq[r].previous)
            /\ sreq' = [sreq EXCEPT ![r] = [@ EXCEPT !.pc = "done", !.todo = <<>>]]
       ELSE /\ sreq' = [sreq EXCEPT ![r] = [@ EXCEPT !.todo = Tail(@)]]
            /\ UNCHANGED snapshots
    /\ UNCHANGED outsideSnap

NextSnapshots ==
    \/ \E r \in SnapReqIds : SnapshotCollect(r)
    \/ \E r \in SnapReqIds : DispatchWebhooks(r)
    \/ \E r \in SnapReqIds : WebhookPosted(r)

\* C9: every snapshot a request stored was evaluated against the snapshot
\* immediately before it in the store, and no webhook was notified twice
\* for the same transition.
SnapshotEvaluationAtomic ==
    /\ \A i \in 1..Len(snapshots) :
          snapshots[i].by # 0 => snapshots[i].previous = i - 1
    /\ \A i, j \in 1..Len(notified) :
          (i # j /\ notified[i].hook = notified[j].hook)
          => notified[i].previous # notified[j].previous

\* the metric an event is about
MetricOf(event) ==
    IF event[1] = "Stars crossed" THEN "total_stars"
    ELSE IF event[1] = "Streak broken" THEN "current_streak"
    ELSE "total_contributions"

\* the events of a notification: those the hook's conditions trigger between
\* the data of the request and the snapshot it was evaluated against
EventsOf(n) ==
    LET triggered == evaluate_conditions(Hooks[n.hook].conditions, sreq[n.by].data,
                                         snapshots[n.previous].data)
    IN {triggered[k] : k \in 1..Len(triggered)}

\* C40: every event notified is about a metric that was collected
\* successfully both in the request and in the snapshot it was compared
\* with: a fallback 0 is never compared.
EventsOnlyBetweenCollectedValues ==
    \A i \in 1..Len(notified) :
        \A event \in EventsOf(notified[i]) :
            /\ MetricOf(event) \notin sreq[notified[i].by].failed
            /\ MetricOf(event) \notin snapshots[notified[i].previous].failed

-----------------------------------------------------------------------------
(* src/db/db.py: GitRepoStatsDB; src/core/traffic_stats.py: TrafficStats;  *)
(* src/core/traffic_collector.py: fetch_views (fetch_clones is the same    *)
(* code on the clones row)                                                 *)

TrafficReqIds == 1..NumTrafficRequests
\* "0000-00-00"; ISO dates compare as strings the way their days do
NoDate == 0
Yesterday == Today - 1
\* the repository sets requests collect traffic for: a restricted request
\* and the owner's
TrafficRepoSets == {{"alice/pub"}, {"alice/pub", "alice/secret"}}
\* the count GitHub reports for a repository on a day (the traffic API
\* lists every recent day, today included)
ViewsOn(repo, day) == IF repo = "alice/pub" THEN 1 ELSE 2
TrafficEntries(repos) == repos \X (1..Today)

\* the entries the loop of _collect_traffic_entries hands to accumulate_fn
Accumulated(repos, last_date) ==
    {e \in TrafficEntries(repos) : e[2] # Today /\ e[2] > last_date}

SumViews(entries) == SumFn([e \in entries |-> ViewsOn(e[1], e[2])], entries)

Min(S) == CHOOSE x \in S : \A y \in S : x <= y

IdleTrafficReq == [pc |-> "idle", repos |-> {}, repo_views |-> 0,
                   repo_last_viewed |-> NoDate, repo_first_viewed |-> NoDate]

InitTraffic ==
    /\ db \in [count : {0, 5}, date_from : {NoDate}, date_to : {NoDate, 1}]
    /\ treq = [t \in TrafficReqIds |-> IdleTrafficReq]
    /\ thist = [initial |-> db, reported |-> {}, peak |-> db.count]

\* the component at rest, for the specifications that do not move it
IdleTraffic ==
    /\ db = <<>>
    /\ treq = <<>>
    /\ thist = <<>>

\* Environment(): GitRepoStatsDB() loads the row, TrafficStats._init_metric
\* takes count and dates from it (storing enabled, no REPO_VIEWS override)
TrafficConstruct(t) ==
    /\ treq[t].pc = "idle"
    /\ \E repos \in TrafficRepoSets :
         treq' = [treq EXCEPT ![t] = [pc |-> "constructed", repos |-> repos,
                                      repo_views |-> db.count,
                                      repo_last_viewed |-> db.date_to,
                                      repo_first_viewed |-> db.date_from]]
    /\ UNCHANGED <<db, thist, outsideTraffic>>

\* fetch_views once the gathered traffic answers are in: set_views per new
\* entry (each writes the instance's running total to the row),
\* set_last_viewed(yesterday), set_first_viewed
FetchViews(t) ==
    /\ treq[t].pc = "constructed"
    /\ LET q == treq[t]
           new == Accumulated(q.repos, q.repo_last_viewed)
           repo_views == q.repo_views + SumViews(new)
           dates == ({q.repo_last_viewed, Yesterday} \cup {e[2] : e \in new})
                    \ (IF q.repo_last_viewed = NoDate THEN {NoDate} ELSE {})
           first == IF q.repo_first_viewed = NoDate THEN Min(dates)
                    ELSE q.repo_first_viewed
       IN /\ db' = [count |-> IF new = {} THEN db.count ELSE repo_views,
                    date_from |-> first,
                    date_to |-> Yesterday]
          /\ treq' = [treq EXCEPT ![t] = [@ EXCEPT !.pc = "done",
                                                   !.repo_views = repo_views,
                                                   !.repo_last_viewed = Yesterday,
                                                   !.repo_first_viewed = first]]
          /\ thist' = [thist EXCEPT
                         !.reported = @ \cup Accumulated(q.repos, thist.initial.date_to),
                         !.peak = IF db'.count > @ THEN db'.count ELSE @]
    /\ UNCHANGED outsideTraffic

NextTraffic ==
    \/ \E t \in TrafficReqIds : TrafficConstruct(t)
    \/ \E t \in TrafficReqIds : FetchViews(t)

\* C10: the stored view count is the initial count plus every (repository,
\* day) count reported so far for a day after the initially stored last
\* date and before today, each once; and it never falls below a value it
\* had.
TrafficStoreExact ==
    /\ db.count = thist.initial.count + SumViews(thist.reported)
    /\ db.count >= thist.peak

-----------------------------------------------------------------------------
(* api/services/notification_dispatcher.py: dispatch_webhooks, one hook    *)
(* at a time, and the end of create_snapshot (api/routes/history.py)       *)

\* length of the list of webhooks registered for the user
MaxHooks == 2

\* the conditions a registration may hold (WebhookCreateRequest.conditions
\* is Dict[str, Any]: any JSON value is stored).  int_raises: the stored
\* stars_threshold is a value int() rejects, such as "abc" or [1]
HookConditions ==
    {[stars_threshold |-> Some(2), int_raises |-> FALSE, streak_broken |-> FALSE,
      contributions_record |-> FALSE],
     [stars_threshold |-> NoneOpt, int_raises |-> FALSE, streak_broken |-> TRUE,
      contributions_record |-> FALSE],
     [stars_threshold |-> Some(0), int_raises |-> TRUE, streak_broken |-> FALSE,
      contributions_record |-> FALSE]}

\* webhook_store.list_by_user(username): the lists of registrations
HookLists == UNION {[1..n -> HookConditions] : n \in 0..MaxHooks}

\* how a POST to a callback may end: answered below 400, answered 400 or
\* above, timed out (asyncio.TimeoutError), connection refused (ClientError)
PostOutcomes == {"ok", "status>=400", "timeout", "refused"}

\* the snapshots a request may collect / may find stored
DispatchCurrent ==
    {[total_stars |-> 2, current_streak |-> 0, total_contributions |-> 1],
     [total_stars |-> 1, current_streak |-> 1, total_contributions |-> 1]}
DispatchPrevious ==
    {NoneOpt,
     Some([total_stars |-> 1, current_streak |-> 1, total_contributions |-> 1])}

\* evaluate_conditions(hook["conditions"], current, previous) raises:
\* int(stars_threshold) is evaluated whenever stars_threshold is not None
evaluate_raises(conditions) ==
    conditions.stars_threshold # NoneOpt /\ conditions.int_raises

InitDispatch ==
    \E hooks \in HookLists, current \in DispatchCurrent, previous \in DispatchPrevious :
        wd = [pc |-> "dispatch", hooks |-> hooks, current |-> current,
              previous |-> previous, i |-> 1, evaluated |-> {}, posts |-> <<>>,
              fired |-> 0, saved |-> 0, status |-> 0]

\* dispatch_webhooks: previous = get_latest_snapshot(username); None -> return 0
DispatchRead ==
    /\ wd.pc = "dispatch"
    /\ wd' = [wd EXCEPT !.pc = IF wd.previous = NoneOpt THEN "save" ELSE "loop"]
    /\ UNCHANGED outsideDispatch

\* one pass of "for hook in hooks" up to its POST: evaluate_conditions is
\* called outside the try, so an exception it raises leaves dispatch_webhooks
\* and create_snapshot (the request answers 500)
DispatchEvaluate ==
    /\ wd.pc = "loop"
    /\ wd.i <= Len(wd.hooks)
    /\ LET conditions == wd.hooks[wd.i]
       IN IF evaluate_raises(conditions)
          THEN wd' = [wd EXCEPT !.pc = "done", !.status = 500]
          ELSE IF evaluate_conditions(conditions, wd.current, wd.previous[1]) = <<>>
               THEN wd' = [wd EXCEPT !.i = @ + 1, !.evaluated = @ \cup {wd.i}]
               ELSE wd' = [wd EXCEPT !.pc = "post", !.evaluated = @ \cup {wd.i}]
    /\ UNCHANGED outsideDispatch

\* session.post(...) inside try / except Exception: fired counts the answers
\* below 400, every other outcome is logged
DispatchPost ==
    /\ wd.pc = "post"
    /\ \E outcome \in PostOutcomes :
         wd' = [wd EXCEPT !.pc = "loop", !.i = @ + 1,
                          !.posts = Append(@, [hook |-> wd.i, outcome |-> outcome]),
                          !.fired = IF outcome = "ok" THEN @ + 1 ELSE @]
    /\ UNCHANGED outsideDispatch

\* the loop is over: dispatch_webhooks returns
DispatchReturn ==
    /\ wd.pc = "loop"
    /\ wd.i > Len(wd.hooks)
    /\ wd' = [wd EXCEPT !.pc = "save"]
    /\ UNCHANGED outsideDispatch

\* create_snapshot: snapshot_store.save_snapshot(username, data); return (201)
DispatchSave ==
    /\ wd.pc = "save"
    /\ wd' = [wd EXCEPT !.pc = "done", !.saved = @ + 1, !.status = 201]
    /\ UNCHANGED outsideDispatch

NextDispatch ==
    \/ DispatchRead
    \/ DispatchEvaluate
    \/ DispatchPost
    \/ DispatchReturn
    \/ DispatchSave

\* the hooks whose conditions are evaluable and trigger for this request
Triggering ==
    {i \in 1..Len(wd.hooks) :
        /\ wd.previous # NoneOpt
        /\ ~evaluate_raises(wd.hooks[i])
        /\ evaluate_conditions(wd.hooks[i], wd.current, wd.previous[1]) # <<>>}

\* C11: the request ends with exactly one snapshot saved and status 201,
\* whatever the POSTs answered and whatever conditions are stored; every
\* hook that triggers was notified (its POST was attempted).
SnapshotSavedWhateverWebhooksDo ==
    wd.pc = "done"
    => /\ wd.saved = 1
       /\ wd.status = 201
       /\ \A i \in Triggering : \E p \in 1..Len(wd.posts) : wd.posts[p].hook = i

-----------------------------------------------------------------------------
(* src/core/github_client.py: GitHubClient.query and query_rest, one call  *)
(* at a time, attempt by attempt                                           *)

\* __REST_QUERY_LIMIT
REST_QUERY_LIMIT == 60
\* __ASYNCIO_SLEEP_TIME, in seconds
ASYNCIO_SLEEP_TIME == 2

ClientOps == {"query", "query_rest"}

\* What one HTTP request may come to.  status 0: no response (aiohttp.ClientError
\* / requests.RequestException); body: the response text decodes to a JSON
\* value ("json"), to null ("null"), or does not decode ("bad"); low: the
\* response's X-RateLimit headers report remaining < 10 and a reset time
\* further ahead than any pause the client makes
NoResponseAnswer == [status |-> 0, body |-> "none", low |-> FALSE]
Answers ==
    {NoResponseAnswer}
    \cup {[status |-> 200, body |-> b, low |-> l] : b \in {"json", "null", "bad"},
                                                    l \in BOOLEAN}
    \cup {[status |-> s, body |-> "json", low |-> l] : s \in {202, 403, 404, 500},
                                                       l \in BOOLEAN}

\* the kinds of answer the retry policy and the breaker tell apart; the 403
\* of the model is the one whose message names a rate limit
ClassOf(a) ==
    IF a.status = 0 THEN "network error"
    ELSE IF a.status >= 500 THEN "5xx"
    ELSE IF a.status = 403 THEN "secondary rate limit"
    ELSE IF a.status >= 400 THEN "4xx"
    ELSE IF a.body = "bad" THEN "undecodable"
    ELSE IF a.status = 202 THEN "202"
    ELSE "success"

\* results of a call
EmptyResult == <<"dict()">>
NoneResult == <<"None">>
BodyOf(a) == <<"body", a.status>>
NoResult == <<>>

\* query: "result = await r_async.json()" raises, or the request did
query_async_raises(a) == a.status = 0 \/ a.body = "bad"

\* query_rest: the 202 test comes before r_async.json()
rest_async_raises(a) == a.status = 0 \/ (a.status # 202 /\ a.body = "bad")

\* (variant) the loop runs one more time
rest_limit_reached_late(i) == i > REST_QUERY_LIMIT

\* "for i in range(self.__REST_QUERY_LIMIT)" is over
rest_limit_reached(i) == i >= REST_QUERY_LIMIT

\* what a step of a call leaves in cl: the next position, the result, and
\* whether the attempt was followed by sleep(__ASYNCIO_SLEEP_TIME)
Returned(result) == [pc |-> "done", result |-> result, slept |-> 0, next |-> 0]
ToFallback == [pc |-> "fallback", result |-> NoResult, slept |-> 0, next |-> 0]
NextAttempt(slept) == [pc |-> "attempt", result |-> NoResult, slept |-> slept, next |-> 1]

\* query: the aiohttp request and r_async.json()
query_async(a) ==
    IF query_async_raises(a) THEN ToFallback
    ELSE IF a.body # "null" THEN Returned(BodyOf(a))
    ELSE Returned(EmptyResult)

\* query: the synchronous fallback in the except clause
query_fallback(a) ==
    IF a.status = 0 \/ a.body = "bad" THEN Returned(EmptyResult)
    ELSE IF a.body # "null" THEN Returned(BodyOf(a))
    ELSE Returned(EmptyResult)

\* query_rest: one pass of the loop, the aiohttp request
rest_async(a) ==
    IF rest_async_raises(a) THEN ToFallback
    ELSE IF a.status = 202 THEN NextAttempt(ASYNCIO_SLEEP_TIME)
    ELSE IF a.body # "null" THEN Returned(BodyOf(a))
    ELSE NextAttempt(0)

\* query_rest: the synchronous fallback of the pass
rest_fallback(a) ==
    IF a.status = 0 THEN NextAttempt(0)
    ELSE IF a.status = 202 THEN NextAttempt(ASYNCIO_SLEEP_TIME)
    ELSE IF a.status = 200
         THEN IF a.body = "bad" THEN NextAttempt(0)
              ELSE IF a.body = "null" THEN Returned(NoneResult)
              ELSE Returned(BodyOf(a))
    ELSE NextAttempt(0)

\* The breaker and the rate-limit snapshot as the specification describes
\* them, kept beside the client as an observer of its calls.
FAIL_MAX == 5
CountedFailures == {"network error", "5xx", "undecodable"}
Successes == {"success", "202"}
\* the breaker after a call that ended on an answer of class c
BreakerAfter(breaker, failures, c) ==
    IF c \in CountedFailures
    THEN IF breaker = "half-open" \/ failures + 1 >= FAIL_MAX
         THEN [breaker |-> "open",
               failures |-> IF failures < FAIL_MAX THEN failures + 1 ELSE failures]
         ELSE [breaker |-> breaker, failures |-> failures + 1]
    ELSE IF c \in Successes
         THEN [breaker |-> "closed", failures |-> 0]
         ELSE [breaker |-> breaker, failures |-> failures]

NewClient ==
    [pc |-> "idle", op |-> "none", i |-> 0, dispatched |-> 0, last |-> "none",
     slept |-> 0, result |-> NoResult, breaker |-> "closed", failures |-> 0,
     low |-> FALSE]

InitClient == cl = NewClient

\* a caller starts a call; later: at least reset_timeout (and the reported
\* rate-limit reset time) has passed since the previous call ended
ClientCall ==
    /\ cl.pc \in {"idle", "done"}
    /\ \E op \in ClientOps, later \in BOOLEAN :
         cl' = [cl EXCEPT !.pc = "attempt", !.op = op, !.i = 0, !.dispatched = 0,
                          !.last = "none", !.slept = 0, !.result = NoResult,
                          !.breaker = IF later /\ @ = "open" THEN "half-open" ELSE @,
                          !.low = IF later THEN FALSE ELSE @]
    /\ UNCHANGED outsideClient

\* cl after a request of the call was answered by a, the code going on as
\* step says
Answered(step, a) ==
    LET c == ClassOf(a)
        b == IF step.pc = "done" THEN BreakerAfter(cl.breaker, cl.failures, c)
             ELSE [breaker |-> cl.breaker, failures |-> cl.failures]
    IN [cl EXCEPT !.pc = step.pc, !.i = @ + step.next, !.dispatched = @ + 1,
                  !.last = c, !.slept = step.slept, !.result = step.result,
                  !.breaker = b.breaker, !.failures = b.failures,
                  !.low = IF a.status = 0 THEN @ ELSE a.low]

\* "async with self.semaphore: r_async = await self.session.post/get(...)"
\* and what follows it up to the next request or the return
ClientAttempt ==
    /\ cl.pc = "attempt"
    /\ cl.op = "query_rest" => ~rest_limit_reached(cl.i)
    /\ \E a \in Answers :
         cl' = Answered(IF cl.op = "query" THEN query_async(a) ELSE rest_async(a), a)
    /\ UNCHANGED outsideClient

\* the except clause: requests.post/get(...) and what follows it
ClientFallback ==
    /\ cl.pc = "fallback"
    /\ \E a \in Answers :
         cl' = Answered(IF cl.op = "query" THEN query_fallback(a)
                        ELSE rest_fallback(a), a)
    /\ UNCHANGED outsideClient

\* query_rest after the loop: "Too many 202s", return dict()
RestExhausted ==
    /\ cl.pc = "attempt"
    /\ cl.op = "query_rest"
    /\ rest_limit_reached(cl.i)
    /\ LET b == BreakerAfter(cl.breaker, cl.failures, cl.last)
       IN cl' = [cl EXCEPT !.pc = "done", !.result = EmptyResult,
                           !.breaker = b.breaker, !.failures = b.failures]
    /\ UNCHANGED outsideClient

NextClient == ClientCall \/ ClientAttempt \/ ClientFallback \/ RestExhausted

\* a step of the client that sends a request
Dispatches == cl'.dispatched > cl.dispatched

\* C12: under the breaker the specification describes (open after FAIL_MAX
\* consecutive non-4xx failures, half-open after reset_timeout, closed by a
\* success), no call dispatches a request while the breaker is open.
BreakerOpenFailsFast == [][Dispatches => cl.breaker # "open"]_vars

\* C13: one call dispatches at most 3 requests (polling after a 202 aside);
\* a request follows another only after a network error, a 5xx, an
\* undecodable body or a secondary rate limit 403; a call whose answer is
\* another 4xx ends there, failing with a client error.
Retryable == {"network error", "5xx", "undecodable", "secondary rate limit"}
ClientErrorResult == <<"ClientError">>
RetryPolicy ==
    [][/\ (Dispatches /\ cl.last \notin {"none", "202"})
          => (cl.dispatched < 3 /\ cl.last \in Retryable)
       /\ (cl.pc # "done" /\ cl'.pc = "done" /\ cl'.last = "4xx")
          => cl'.result = ClientErrorResult]_vars

\* C14: no request is dispatched while the rate-limit snapshot says
\* remaining < 10 with the reset time still ahead.
GovernorHoldsDispatch == [][Dispatches => ~cl.low]_vars

-----------------------------------------------------------------------------
(* src/core/github_client.py: the semaphore of one GitHubClient and the    *)
(* callers of query / query_rest going through it                          *)

\* the client of the model is built with GitHubClient(..., max_connections=2)
max_connections == 2
\* tasks calling the client concurrently
NumCallers == 3

Callers == 1..NumCallers

IdleCaller == [pc |-> "idle", op |-> "none", path |-> "none", holds |-> FALSE]

\* (variant) the synchronous fallback is sent without the semaphore
under_semaphore_async_only(path) == path = "aiohttp"

\* both requests of query and of query_rest are sent inside
\* "async with self.semaphore"
under_semaphore(path) == path \in {"aiohttp", "requests"}

\* Semaphore.locked(): no permit is free
locked == pool.value = 0

InitPool ==
    pool = [value |-> max_connections, blocking |-> 0,
            caller |-> [c \in Callers |-> IdleCaller]]

\* the event loop runs one task at a time; while a task is inside
\* requests.get/post (a blocking call) no other task runs
MayRun(c) == pool.blocking \in {0, c}

\* a task calls query or query_rest and reaches "async with self.semaphore"
PoolCall(c) ==
    /\ MayRun(c)
    /\ pool.caller[c].pc \in {"idle", "done"}
    /\ \E op \in ClientOps :
         pool' = [pool EXCEPT !.caller[c] = [pc |-> "waiting", op |-> op,
                                             path |-> "aiohttp", holds |-> FALSE]]
    /\ UNCHANGED outsidePool

\* the semaphore is acquired and the request is sent; requests.get/post
\* blocks the event loop until it is answered
PoolDispatch(c) ==
    /\ MayRun(c)
    /\ pool.caller[c].pc = "waiting"
    /\ LET q == pool.caller[c]
       IN /\ under_semaphore(q.path) => ~locked
          /\ pool' = [pool EXCEPT
                        !.value = IF under_semaphore(q.path) THEN @ - 1 ELSE @,
                        !.blocking = IF q.path = "requests" THEN c ELSE @,
                        !.caller[c] = [q EXCEPT !.pc = "in flight",
                                                !.holds = under_semaphore(q.path)]]
    /\ UNCHANGED outsidePool

\* where a call goes once a request is answered (or has failed): it returns,
\* enters the fallback, starts the next pass of query_rest, or (202 on the
\* fallback of query_rest) sleeps inside the "async with" block
AfterAnswer(q) ==
    IF q.path = "aiohttp"
    THEN IF q.op = "query" THEN {"done", "fallback"}
         ELSE {"done", "fallback", "pass"}
    ELSE IF q.op = "query" THEN {"done"}
         ELSE {"done", "pass", "sleep"}

\* the request is answered; leaving "async with" releases the semaphore
PoolAnswer(c) ==
    /\ MayRun(c)
    /\ pool.caller[c].pc = "in flight"
    /\ LET q == pool.caller[c]
       IN \E to \in AfterAnswer(q) :
            pool' = [pool EXCEPT
                       !.blocking = 0,
                       !.value = IF q.holds /\ to # "sleep" THEN @ + 1 ELSE @,
                       !.caller[c] =
                           IF to = "done" THEN [q EXCEPT !.pc = "done", !.holds = FALSE]
                           ELSE IF to = "fallback"
                                THEN [q EXCEPT !.pc = "waiting", !.path = "requests",
                                               !.holds = FALSE]
                           ELSE IF to = "pass"
                                THEN [q EXCEPT !.pc = "waiting", !.path = "aiohttp",
                                               !.holds = FALSE]
                           ELSE [q EXCEPT !.pc = "sleeping"]]
    /\ UNCHANGED outsidePool

\* sleep(__ASYNCIO_SLEEP_TIME) inside the fallback's "async with" is over:
\* continue, which leaves the block and starts the next pass
PoolWake(c) ==
    /\ MayRun(c)
    /\ pool.caller[c].pc = "sleeping"
    /\ LET q == pool.caller[c]
       IN pool' = [pool EXCEPT
                     !.value = IF q.holds THEN @ + 1 ELSE @,
                     !.caller[c] = [q EXCEPT !.pc = "waiting", !.path = "aiohttp",
                                             !.holds = FALSE]]
    /\ UNCHANGED outsidePool

NextPool ==
    \/ \E c \in Callers : PoolCall(c)
    \/ \E c \in Callers : PoolDispatch(c)
    \/ \E c \in Callers : PoolAnswer(c)
    \/ \E c \in Callers : PoolWake(c)

\* the requests sent and not yet answered
InFlight == {c \in Callers : pool.caller[c].pc = "in flight"}

\* C15: at every moment at most max_connections requests of the client are
\* in flight, over query and query_rest and both of their request paths.
InFlightBounded == Cardinality(InFlight) <= max_connections

\* max_connections requests in flight, one of them on the fallback path,
\* while another caller waits for the semaphore
InFlightWitness ==
    /\ Cardinality(InFlight) = max_connections
    /\ \E c \in InFlight : pool.caller[c].path = "requests"
    /\ \E c \in Callers : pool.caller[c].pc = "waiting"

-----------------------------------------------------------------------------
(* api/routes/health.py: GET /health                                       *)

BreakerStates == {"closed", "half-open", "open"}
\* values of rate_limit_state.remaining around the two thresholds
Remainings == {0, 5, 10, 11, 50, 100, 101, 4500}

\* _github_api_health: the status derived from rate_limit_state.remaining
github_api_health(remaining) ==
    IF remaining = NoneOpt THEN "unknown"
    ELSE IF remaining[1] > 100 THEN "connected"
    ELSE IF remaining[1] > 10 THEN "degraded"
    ELSE "critical"

overall_status(github_status, cb_state) ==
    IF cb_state = "open" \/ github_status = "critical" THEN "unhealthy"
    ELSE IF cb_state = "half-open" \/ github_status \in {"degraded", "unknown"}
         THEN "degraded"
    ELSE "healthy"

\* the response of health(): status code and the fields of the body that
\* depend on the breaker and on the rate limit
health_response(remaining, cb_state) ==
    LET github == github_api_health(remaining)
        status == overall_status(github, cb_state)
    IN [status_code |-> IF status = "healthy" THEN 200 ELSE 503,
        status |-> status,
        github_api |-> [status |-> github, rate_limit_remaining |-> remaining],
        circuit_breaker |-> cb_state]

InitHealth ==
    hl = [cb_state |-> "closed", remaining |-> NoneOpt, response |-> NoneOpt]

\* github_breaker.current_state changes: closed or half-open to open, open
\* to half-open, half-open to closed
BreakerChanges ==
    /\ \E s \in BreakerStates :
         /\ <<hl.cb_state, s>> \in {<<"closed", "open">>, <<"half-open", "open">>,
                                    <<"open", "half-open">>, <<"half-open", "closed">>}
         /\ hl' = [hl EXCEPT !.cb_state = s]
    /\ UNCHANGED outsideHealth

\* rate_limit_state.remaining is set from the headers of a GitHub response
RateLimitObserved ==
    /\ \E n \in Remainings : hl' = [hl EXCEPT !.remaining = Some(n)]
    /\ hl'.remaining # hl.remaining
    /\ UNCHANGED outsideHealth

HealthGet ==
    /\ hl' = [hl EXCEPT !.response = Some(health_response(hl.remaining, hl.cb_state))]
    /\ UNCHANGED outsideHealth

NextHealth ==
    \/ BreakerChanges
    \/ RateLimitObserved
    \/ HealthGet

\* the status the worst of the two derived states gives
WorstOf(remaining, cb_state) ==
    IF cb_state = "open" \/ (remaining # NoneOpt /\ remaining[1] <= 10)
    THEN "unavailable"
    ELSE IF cb_state = "half-open" \/ remaining = NoneOpt \/ remaining[1] <= 100
         THEN "degraded"
    ELSE "ok"

\* C17: GET /health answers with status unavailable (breaker open or at most
\* 10 requests remaining), degraded (breaker half-open, 11..100 remaining or
\* rate limit never observed) or ok, and with HTTP 503 exactly when the
\* status is unavailable, 200 otherwise.
HealthReportsWorst ==
    hl.response # NoneOpt =>
        LET r == hl.response[1]
        IN /\ r.status = WorstOf(r.github_api.rate_limit_remaining, r.circuit_breaker)
           /\ r.status_code = (IF r.status = "unavailable" THEN 503 ELSE 200)

-----------------------------------------------------------------------------
(* api/services/notification_dispatcher.py: evaluate_conditions on         *)
(* snapshots and conditions with missing keys                              *)

\* greatest value of a statistic in a snapshot
MaxStat == 2

StatFields == {"total_stars", "current_streak", "total_contributions"}

\* snapshots: some fields may be missing
EvalSnapshots == UNION {[D -> 0..MaxStat] : D \in SUBSET StatFields}

\* the part of a dict under the keys of D
RestrictTo(d, D) == [k \in D |-> d[k]]

\* conditions: each key may be missing; stars_threshold may be None
EvalConditions ==
    {RestrictTo(c, D) :
        c \in [stars_threshold : {NoneOpt} \cup {Some(n) : n \in 0..(MaxStat + 1)},
               streak_broken : BOOLEAN, contributions_record : BOOLEAN],
        D \in SUBSET {"stars_threshold", "streak_broken", "contributions_record"}}

InitEval ==
    \E conditions \in EvalConditions, current \in EvalSnapshots,
       previous \in EvalSnapshots :
        ev = [pc |-> "called", conditions |-> conditions, current |-> current,
              previous |-> previous, triggered |-> <<>>, below |-> <<>>]

EvaluateConditions ==
    /\ ev.pc = "called"
    /\ ev' = [ev EXCEPT !.pc = "returned",
                        !.triggered = evaluate_conditions(ev.conditions, ev.current,
                                                          ev.previous)]
    /\ UNCHANGED outsideEval

\* the same conditions with stars_threshold lowered by one
ThresholdBelow(conditions) ==
    [conditions EXCEPT !["stars_threshold"] = Some(@[1] - 1)]

\* evaluate_conditions once more on the same two snapshots, with the
\* threshold lowered by one
EvaluateBelow ==
    /\ ev.pc = "returned"
    /\ Get(ev.conditions, "stars_threshold", NoneOpt) # NoneOpt
    /\ ev' = [ev EXCEPT !.pc = "compared",
                        !.below = evaluate_conditions(ThresholdBelow(ev.conditions),
                                                      ev.current, ev.previous)]
    /\ UNCHANGED outsideEval

NextEval ==
    \/ EvaluateConditions
    \/ EvaluateBelow

\* C18: the list returned holds exactly the events whose condition holds,
\* each once, stars before streak before contributions; a missing field
\* counts as 0 and an absent, None or false condition yields nothing.
ExactlyTheTriggeredEvents ==
    ev.pc # "called" =>
        LET c == ev.conditions
            t == ev.triggered
            val(s, f) == IF f \in DOMAIN s THEN s[f] ELSE 0
            N == c["stars_threshold"][1]
            stars == /\ "stars_threshold" \in DOMAIN c
                     /\ c["stars_threshold"] # NoneOpt
                     /\ val(ev.previous, "total_stars") < N
                     /\ N <= val(ev.current, "total_stars")
            streak == /\ "streak_broken" \in DOMAIN c
                      /\ c["streak_broken"]
                      /\ val(ev.previous, "current_streak") > 0
                      /\ val(ev.current, "current_streak") = 0
            record == /\ "contributions_record" \in DOMAIN c
                      /\ c["contributions_record"]
                      /\ val(ev.current, "total_contributions")
                           > val(ev.previous, "total_contributions")
                      /\ val(ev.previous, "total_contributions") > 0
            rank(e) == IF e[1] = "Stars crossed" THEN 1
                       ELSE IF e[1] = "Streak broken" THEN 2 ELSE 3
            has(e) == \E i \in 1..Len(t) : t[i] = e
        IN /\ stars <=> \E i \in 1..Len(t) : t[i][1] = "Stars crossed"
           /\ stars => has(<<"Stars crossed", N>>)
           /\ streak <=> has(<<"Streak broken">>)
           /\ record <=> \E i \in 1..Len(t) : t[i][1] = "New contributions record"
           /\ record => has(<<"New contributions record",
                               val(ev.current, "total_contributions")>>)
           /\ \A i \in 1..Len(t) :
                t[i][1] \in {"Stars crossed", "Streak broken", "New contributions record"}
           /\ \A i, j \in 1..Len(t) : i < j => rank(t[i]) < rank(t[j])

\* all three events at once, with the previous total_stars and the current
\* current_streak missing from the snapshots
ThreeEventsWitness ==
    /\ ev.pc # "called"
    /\ Len(ev.triggered) = 3
    /\ "total_stars" \notin DOMAIN ev.previous
    /\ "current_streak" \notin DOMAIN ev.current

\* a list of events holds the stars event
StarsCrossed(triggered) ==
    \E i \in 1..Len(triggered) : triggered[i][1] = "Stars crossed"

\* C19 (as stated): on the same two snapshots, a stars_threshold that
\* triggers at N also triggers at N - 1.
StarsThresholdMonotonic ==
    (ev.pc = "compared" /\ StarsCrossed(ev.triggered)) => StarsCrossed(ev.below)

\* C19 (amended): on the same two snapshots, a stars_threshold that triggers
\* at N also triggers at N - 1, provided the previous total_stars is below
\* N - 1.
StarsThresholdMonotonicBelow ==
    ( /\ ev.pc = "compared"
      /\ StarsCrossed(ev.triggered)
      /\ Get(ev.previous, "total_stars", 0) < ev.conditions["stars_threshold"][1] - 1 )
    => StarsCrossed(ev.below)

\* a threshold of at least 2 crossed from below its predecessor
StarsThresholdMonotonicWitness ==
    /\ ev.pc = "compared"
    /\ StarsCrossed(ev.triggered)
    /\ Get(ev.previous, "total_stars", 0) < ev.conditions["stars_threshold"][1] - 1
    /\ StarsCrossed(ev.below)

-----------------------------------------------------------------------------
(* src/db/snapshots.py: SnapshotStore                                      *)

\* rows the table may hold
MaxRows == 2

\* calendar days, in order (the first ten characters of a timestamp)
StoreDays == {1, 2}
\* times of day, in order: 1 is a time before 23:59:59, 2 is 23:59:59
TimesOfDay == {1, 2}

\* datetime.now(timezone.utc).isoformat(): date, "T" and time of day, then
\* the fraction of the second (if not zero) and "+00:00".  A string is the
\* sequence of its parts; strings compare part by part, a proper prefix
\* before the longer string.
isoformat(day, time) == <<day, time, 1>>

StoreTimestamps == {isoformat(d, t) : d \in StoreDays, t \in TimesOfDay}

\* a date given as from_date or to_date ("YYYY-MM-DD")
DateString(day) == <<day>>

\* "T23:59:59"
T235959 == <<2>>

\* s <= t for strings (SQLite's BINARY collation)
RECURSIVE StrLeq(_, _)
StrLeq(s, t) ==
    IF s = <<>> THEN TRUE
    ELSE IF t = <<>> THEN FALSE
    ELSE IF s[1] # t[1] THEN s[1] < t[1]
    ELSE StrLeq(Tail(s), Tail(t))

StoreUsernames == {"Leo", "leo", "bob"}

\* values of limit
StoreLimits == {1, 2}

\* str.lower()
lower(username) == IF username = "Leo" THEN "leo" ELSE username

\* ORDER BY timestamp ASC (rows of equal timestamp in insertion order)
RECURSIVE OrderByTimestamp(_)
OrderByTimestamp(rows) ==
    IF rows = <<>> THEN <<>>
    ELSE LET first == CHOOSE i \in 1..Len(rows) :
                        \A j \in 1..Len(rows) :
                            \/ ~StrLeq(rows[j].timestamp, rows[i].timestamp)
                            \/ (rows[j].timestamp = rows[i].timestamp /\ i <= j)
                            \/ i = j
             rest == [k \in 1..(Len(rows) - 1) |->
                        IF k < first THEN rows[k] ELSE rows[k + 1]]
         IN <<rows[first]>> \o OrderByTimestamp(rest)

\* LIMIT n
LimitRows(rows, n) == SubSeq(rows, 1, IF n < Len(rows) THEN n ELSE Len(rows))

\* entry = json.loads(row["data"]); entry["date"] = row["timestamp"][:10]
SnapshotEntry(row) == [data |-> row.data, date |-> row.timestamp[1]]

\* SnapshotStore.get_snapshots(username, from_date, to_date, limit)
SnapshotStore_get_snapshots(rows, username, from_date, to_date, limit) ==
    LET Where(row) ==
            /\ row.username = lower(username)
            /\ from_date # NoneOpt => StrLeq(DateString(from_date[1]), row.timestamp)
            /\ to_date # NoneOpt
                 => StrLeq(row.timestamp, DateString(to_date[1]) \o T235959)
        found == LimitRows(OrderByTimestamp(SelectSeq(rows, Where)), limit)
    IN [k \in 1..Len(found) |-> SnapshotEntry(found[k])]

\* SnapshotStore.get_latest_snapshot(username): ORDER BY timestamp DESC
\* LIMIT 1, None without a row
SnapshotStore_get_latest_snapshot(rows, username) ==
    LET Where(row) == row.username = lower(username)
        mine == SelectSeq(rows, Where)
    IN IF mine = <<>> THEN NoneOpt
       ELSE LET last == CHOOSE i \in 1..Len(mine) :
                          \A j \in 1..Len(mine) : StrLeq(mine[j].timestamp, mine[i].timestamp)
            IN Some(SnapshotEntry(mine[last]))

InitStore == ss = [rows |-> <<>>, last |-> [op |-> "none"]]

\* SnapshotStore.save_snapshot(username, data) at some moment; data is told
\* apart by the count of rows saved before it; saved_as records the
\* username as given
StoreSave ==
    /\ Len(ss.rows) < MaxRows
    /\ \E username \in StoreUsernames, ts \in StoreTimestamps :
         ss' = [rows |-> Append(ss.rows, [username |-> lower(username), timestamp |-> ts,
                                          data |-> Len(ss.rows) + 1,
                                          saved_as |-> username]),
                last |-> [op |-> "save_snapshot"]]
    /\ UNCHANGED outsideStore

StoreGetSnapshots ==
    /\ \E username \in StoreUsernames,
          from_date \in {NoneOpt} \cup {Some(d) : d \in StoreDays},
          to_date \in {NoneOpt} \cup {Some(d) : d \in StoreDays},
          limit \in StoreLimits :
         ss' = [ss EXCEPT !.last =
                   [op |-> "get_snapshots", username |-> username,
                    from_date |-> from_date, to_date |-> to_date, limit |-> limit,
                    result |-> SnapshotStore_get_snapshots(ss.rows, username, from_date,
                                                           to_date, limit)]]
    /\ UNCHANGED outsideStore

StoreGetLatest ==
    /\ \E username \in StoreUsernames :
         ss' = [ss EXCEPT !.last =
                   [op |-> "get_latest_snapshot", username |-> username,
                    result |-> SnapshotStore_get_latest_snapshot(ss.rows, username)]]
    /\ UNCHANGED outsideStore

NextStore ==
    \/ StoreSave
    \/ StoreGetSnapshots
    \/ StoreGetLatest

\* the rows get_snapshots is to choose from: saved for the username, whatever
\* the case, with from <= date <= to
InRange(q) ==
    {i \in 1..Len(ss.rows) :
        /\ lower(ss.rows[i].saved_as) = lower(q.username)
        /\ q.from_date # NoneOpt => q.from_date[1] <= ss.rows[i].timestamp[1]
        /\ q.to_date # NoneOpt => ss.rows[i].timestamp[1] <= q.to_date[1]}

\* C20: get_snapshots returns the first `limit` snapshots of the user whose
\* date lies in [from, to], in ascending timestamp order, each with its
\* date; get_latest_snapshot returns the user's snapshot of greatest
\* timestamp, None if there is none.
SnapshotQueries ==
    /\ ss.last.op = "get_snapshots" =>
         LET q == ss.last
             chosen == {i \in InRange(q) :
                          \E k \in 1..Len(q.result) : q.result[k].data = ss.rows[i].data}
         IN /\ Len(q.result) = (IF Cardinality(InRange(q)) < q.limit
                                THEN Cardinality(InRange(q)) ELSE q.limit)
            /\ \A k \in 1..Len(q.result) :
                 \E i \in InRange(q) :
                    /\ q.result[k].data = ss.rows[i].data
                    /\ q.result[k].date = ss.rows[i].timestamp[1]
                    /\ k < Len(q.result) =>
                         \E j \in InRange(q) :
                            /\ q.result[k + 1].data = ss.rows[j].data
                            /\ i # j
                            /\ StrLeq(ss.rows[i].timestamp, ss.rows[j].timestamp)
            /\ \A i \in chosen, j \in InRange(q) \ chosen :
                 StrLeq(ss.rows[i].timestamp, ss.rows[j].timestamp)
    /\ ss.last.op = "get_latest_snapshot" =>
         LET q == ss.last
             mine == {i \in 1..Len(ss.rows) :
                        lower(ss.rows[i].saved_as) = lower(q.username)}
         IN IF mine = {} THEN q.result = NoneOpt
            ELSE /\ q.result # NoneOpt
                 /\ \E i \in mine :
                      /\ q.result[1] = [data |-> ss.rows[i].data,
                                        date |-> ss.rows[i].timestamp[1]]
                      /\ \A j \in mine : StrLeq(ss.rows[j].timestamp, ss.rows[i].timestamp)

-----------------------------------------------------------------------------
(* src/db/webhooks.py: WebhookStore; api/routes/webhooks.py                *)

\* registrations made in one behaviour
MaxWebhooks == 2

\* uuid.uuid4(): the n-th registration gets an identifier never used before;
\* UnknownId is an identifier no registration has
WebhookIds == 1..MaxWebhooks
UnknownId == MaxWebhooks + 1

WebhookConditions == {[stars_threshold |-> Some(2)], [streak_broken |-> TRUE]}

\* WebhookStore.get(webhook_id): the record, or None
WebhookStore_get(rows, webhook_id) ==
    LET found == SelectSeq(rows, LAMBDA row : row.id = webhook_id)
    IN IF found = <<>> THEN NoneOpt
       ELSE Some([id |-> found[1].id, username |-> found[1].username,
                  url |-> found[1].url,
                  conditions |-> JsonLoads(found[1].conditions)])

\* WebhookStore.list_by_user(username): ORDER BY created_at is the order of
\* insertion
WebhookStore_list_by_user(rows, username) ==
    LET found == SelectSeq(rows, LAMBDA row : row.username = lower(username))
    IN [k \in 1..Len(found) |->
           [id |-> found[k].id, username |-> found[k].username, url |-> found[k].url,
            conditions |-> JsonLoads(found[k].conditions)]]

\* WebhookStore.delete(webhook_id)
WebhookStore_delete(rows, webhook_id) ==
    SelectSeq(rows, LAMBDA row : row.id # webhook_id)

\* (variant) the owner is compared with the username as given in the path
registered_for_as_given(hook, username) ==
    hook # NoneOpt /\ hook[1].username = username

\* delete_webhook: not (hook is None or hook["username"] != username.lower())
registered_for(hook, username) ==
    hook # NoneOpt /\ hook[1].username = lower(username)

InitWebhooks ==
    wh = [rows |-> <<>>, created |-> <<>>, deleted |-> {}, last |-> [op |-> "none"]]

\* POST /v1/users/{username}/webhooks: WebhookStore.create; created records
\* the registrations as they were asked for
WebhookCreate ==
    /\ Len(wh.created) < MaxWebhooks
    /\ \E username \in StoreUsernames, conditions \in WebhookConditions :
         LET webhook_id == Len(wh.created) + 1
             record == [id |-> webhook_id, username |-> lower(username),
                        url |-> "https://example.com/hook", conditions |-> conditions]
         IN wh' = [wh EXCEPT
                     !.rows = Append(@, [record EXCEPT
                                            !.conditions = JsonDumps(conditions)]),
                     !.created = Append(@, [username |-> username,
                                            conditions |-> conditions]),
                     !.last = [op |-> "create", status |-> 201, record |-> record]]
    /\ UNCHANGED outsideWebhooks

\* DELETE /v1/users/{username}/webhooks/{webhook_id}
WebhookDelete ==
    /\ \E username \in StoreUsernames, webhook_id \in WebhookIds \cup {UnknownId} :
         LET hook == WebhookStore_get(wh.rows, webhook_id)
         IN IF ~registered_for(hook, username)
            THEN wh' = [wh EXCEPT !.last = [op |-> "delete", username |-> username,
                                            webhook_id |-> webhook_id, status |-> 404]]
            ELSE wh' = [wh EXCEPT
                          !.rows = WebhookStore_delete(@, webhook_id),
                          !.deleted = @ \cup {webhook_id},
                          !.last = [op |-> "delete", username |-> username,
                                    webhook_id |-> webhook_id, status |-> 204]]
    /\ UNCHANGED outsideWebhooks

\* GET /v1/users/{username}/webhooks
WebhookList ==
    /\ \E username \in StoreUsernames :
         wh' = [wh EXCEPT !.last = [op |-> "list", username |-> username, status |-> 200,
                                    records |-> WebhookStore_list_by_user(wh.rows,
                                                                            username)]]
    /\ UNCHANGED outsideWebhooks

NextWebhooks ==
    \/ WebhookCreate
    \/ WebhookDelete
    \/ WebhookList

\* C21: DELETE answers 204 and removes the registration iff a webhook with
\* that id is registered for the user (in lower case); otherwise it answers
\* 404 and the store is unchanged.  A registration is returned by get and by
\* list_by_user of its user until a delete of it succeeds; then get is None.
WebhookLifecycle ==
    [][ /\ wh'.last.op = "delete" =>
             LET q == wh'.last
                 mine == \E i \in 1..Len(wh.rows) :
                            /\ wh.rows[i].id = q.webhook_id
                            /\ lower(wh.created[wh.rows[i].id].username) = lower(q.username)
             IN /\ q.status = (IF mine THEN 204 ELSE 404)
                /\ q.status = 404 => wh'.rows = wh.rows
                /\ q.status = 204 =>
                     /\ \A i \in 1..Len(wh'.rows) : wh'.rows[i].id # q.webhook_id
                     /\ \A i \in 1..Len(wh.rows) :
                          wh.rows[i].id # q.webhook_id
                            => \E j \in 1..Len(wh'.rows) : wh'.rows[j] = wh.rows[i]
                     /\ Len(wh'.rows) = Len(wh.rows) - 1
        /\ \A id \in 1..Len(wh'.created) :
             LET c == wh'.created[id]
                 got == WebhookStore_get(wh'.rows, id)
                 listed == WebhookStore_list_by_user(wh'.rows, c.username)
             IN IF id \in wh'.deleted
                THEN got = NoneOpt
                ELSE /\ got = Some([id |-> id, username |-> lower(c.username),
                                    url |-> "https://example.com/hook",
                                    conditions |-> c.conditions])
                     /\ \E k \in 1..Len(listed) : listed[k] = got[1]
      ]_vars

\* a registration made as "Leo" deleted as "leo" with 204 while another
\* registration is still there
WebhookLifecycleWitness ==
    /\ wh.last.op = "delete"
    /\ wh.last.status = 204
    /\ wh.last.username # wh.created[wh.last.webhook_id].username
    /\ wh.rows # <<>>

-----------------------------------------------------------------------------
(* src/core/contribution_tracker.py: ContributionTracker;                  *)
(* src/core/stats_collector.py: the same pass and recent_contributions     *)

\* days of the longest calendar
MaxDays == 11

\* the accessors return the trailing RECENT_DAYS days ("[-10:]")
RECENT_DAYS == 10

\* the days of consecutive years: contiguous dates 1..n (a date is the
\* number of its day; "YYYY-MM-DD" strings compare as the days do), counts
\* 0 or 1
ContiguousCalendars ==
    UNION {{[i \in 1..n |-> [date |-> i, count |-> c[i]]] : c \in [1..n -> {0, 1}]} :
             n \in 0..MaxDays}

\* contributionYears lists the years with contributions only: the days of a
\* year that is not listed are not fetched, and the dates after day k are
\* later by the length of that year (one day here)
SkippedYearCalendars ==
    UNION {{[i \in 1..Len(c) |-> [date |-> IF i <= k THEN i ELSE i + 1,
                                  count |-> c[i].count]] : k \in 1..(Len(c) - 1)} :
             c \in {d \in ContiguousCalendars : Len(d) * 2 <= MaxDays}}

\* all_days after the sort
Calendars == ContiguousCalendars \cup SkippedYearCalendars

\* date.today(): before the last recorded day, on it, or up to three days
\* after it
Todays == 1..(MaxDays + 3)

\* the variables of the pass before the first day
StartOfPass ==
    [current_streak |-> 0, longest_streak |-> 0,
     current_streak_start |-> NoneOpt, current_streak_end |-> NoneOpt,
     longest_streak_start |-> NoneOpt, longest_streak_end |-> NoneOpt,
     temp_streak |-> 0, temp_streak_start |-> NoneOpt]

\* (variant) the longest streak is replaced only when beaten by two days
beats_longest_by_two(temp_streak, longest_streak) == temp_streak > longest_streak + 1

\* "if temp_streak > longest_streak"
beats_longest(temp_streak, longest_streak) == temp_streak > longest_streak

\* "if i < len(all_days) - 1 or day["date"] == today" (i counts from 1 here)
zero_day_resets(all_days, i, today) ==
    i < Len(all_days) \/ all_days[i].date = today

\* one iteration of "for i, day in enumerate(all_days)"
StreakDay(all_days, i, today, v) ==
    LET day == all_days[i]
    IN IF day.count > 0
       THEN LET start == IF v.temp_streak = 0 THEN Some(day.date)
                         ELSE v.temp_streak_start
                temp == v.temp_streak + 1
                v1 == [v EXCEPT !.temp_streak = temp, !.temp_streak_start = start]
                v2 == IF beats_longest(temp, v1.longest_streak)
                      THEN [v1 EXCEPT !.longest_streak = temp,
                                      !.longest_streak_start = start,
                                      !.longest_streak_end = Some(day.date)]
                      ELSE v1
            IN IF day.date = today \/ i = Len(all_days)
               THEN [v2 EXCEPT !.current_streak = temp,
                               !.current_streak_start = start,
                               !.current_streak_end = Some(day.date)]
               ELSE v2
       ELSE IF zero_day_resets(all_days, i, today)
            THEN [v EXCEPT !.temp_streak = 0, !.temp_streak_start = NoneOpt]
            ELSE v

\* the pass over days i..len
RECURSIVE StreakPass(_, _, _, _)
StreakPass(all_days, i, today, v) ==
    IF i > Len(all_days) THEN v
    ELSE StreakPass(all_days, i + 1, today, StreakDay(all_days, i, today, v))

\* (variant) the policy applies to a last day before the day before yesterday
last_day_is_stale_a_day_later(all_days, today) ==
    all_days # <<>> /\ all_days[Len(all_days)].date < today - 2

\* "if all_days and all_days[-1]["date"] < yesterday"
last_day_is_stale(all_days, today) ==
    all_days # <<>> /\ all_days[Len(all_days)].date < today - 1

\* _format_date_range(start, end): "No streak" or the two dates formatted
format_date_range(start, end) ==
    IF start = NoneOpt \/ end = NoneOpt THEN <<"No streak">>
    ELSE <<"from", start[1], "to", end[1]>>

\* the streaks fetch_contribution_calendar stores
fetch_contribution_calendar(all_days, today) ==
    LET v == StreakPass(all_days, 1, today, StartOfPass)
        stale == last_day_is_stale(all_days, today)
    IN [current_streak |-> IF stale THEN 0 ELSE v.current_streak,
        longest_streak |-> v.longest_streak,
        current_streak_range |->
            IF stale THEN format_date_range(NoneOpt, NoneOpt)
            ELSE format_date_range(v.current_streak_start, v.current_streak_end),
        longest_streak_range |->
            format_date_range(v.longest_streak_start, v.longest_streak_end)]

\* "x[-10:] if len(x) >= 10 else x"
Trailing(x) ==
    IF Len(x) >= RECENT_DAYS THEN SubSeq(x, Len(x) - RECENT_DAYS + 1, Len(x)) ELSE x

CountsOf(days) == [k \in 1..Len(days) |-> days[k].count]

\* ContributionTracker.get_recent_contributions
get_recent_contributions(days, today) ==
    CountsOf(Trailing(SelectSeq(days, LAMBDA d : d.date <= today)))

\* StatsCollector.recent_contributions
recent_contributions(days, today) == CountsOf(Trailing(days))

InitCalendar ==
    \E all_days \in Calendars, today \in Todays :
        cal = [pc |-> "fetched", days |-> all_days, today |-> today,
               streaks |-> NoneOpt, recent |-> NoneOpt, by |-> "none"]

\* the pass of fetch_contribution_calendar / _get_contribution_calendar
FetchContributionCalendar ==
    /\ cal.pc = "fetched"
    /\ cal' = [cal EXCEPT !.pc = "stored",
                          !.streaks = Some(fetch_contribution_calendar(cal.days,
                                                                       cal.today))]
    /\ UNCHANGED outsideCalendar

GetRecentContributions ==
    /\ cal.pc = "stored"
    /\ cal' = [cal EXCEPT !.pc = "read", !.by = "ContributionTracker",
                          !.recent = Some(get_recent_contributions(cal.days, cal.today))]
    /\ UNCHANGED outsideCalendar

RecentContributions ==
    /\ cal.pc = "stored"
    /\ cal' = [cal EXCEPT !.pc = "read", !.by = "StatsCollector",
                          !.recent = Some(recent_contributions(cal.days, cal.today))]
    /\ UNCHANGED outsideCalendar

NextCalendar ==
    \/ FetchContributionCalendar
    \/ GetRecentContributions
    \/ RecentContributions

\* the length of the run of days with count > 0 that ends on day i
RECURSIVE RunEndingAt(_, _)
RunEndingAt(days, i) ==
    IF i < 1 \/ days[i].count = 0 THEN 0 ELSE 1 + RunEndingAt(days, i - 1)

\* C22: when the last recorded day is today and its count is 0, the current
\* streak is the run of days with count > 0 that ends yesterday, and the
\* range of the current streak spans that run.
StreakRollover ==
    ( /\ cal.streaks # NoneOpt
      /\ cal.days # <<>>
      /\ cal.days[Len(cal.days)].date = cal.today
      /\ cal.days[Len(cal.days)].count = 0 )
    => LET n == Len(cal.days)
           run == RunEndingAt(cal.days, n - 1)
       IN /\ cal.streaks[1].current_streak = run
          /\ run > 0 => cal.streaks[1].current_streak_range
                          = <<"from", cal.days[n - run].date, "to", cal.days[n - 1].date>>

\* C23: a last recorded day before yesterday gives current_streak = 0 and
\* "No streak"; in every case current_streak = 0 iff the range is "No streak".
NoStreakIffZero ==
    cal.streaks # NoneOpt =>
        /\ (cal.days # <<>> /\ cal.days[Len(cal.days)].date < cal.today - 1)
             => /\ cal.streaks[1].current_streak = 0
                /\ cal.streaks[1].current_streak_range = <<"No streak">>
        /\ cal.streaks[1].current_streak = 0
             <=> cal.streaks[1].current_streak_range = <<"No streak">>

\* a stale calendar that ends in a run of days with contributions
NoStreakIffZeroWitness ==
    /\ cal.streaks # NoneOpt
    /\ Len(cal.days) >= 2
    /\ cal.days[Len(cal.days)].count > 0
    /\ cal.days[Len(cal.days)].date = cal.today - 2
    /\ cal.streaks[1].current_streak = 0
    /\ cal.streaks[1].longest_streak >= 2

\* C24: longest_streak >= current_streak >= 0 for every calendar and every
\* position of today.
LongestAtLeastCurrent ==
    cal.streaks # NoneOpt =>
        /\ cal.streaks[1].longest_streak >= cal.streaks[1].current_streak
        /\ cal.streaks[1].current_streak >= 0

\* an earlier run longer than the current one
LongestAtLeastCurrentWitness ==
    /\ cal.streaks # NoneOpt
    /\ cal.streaks[1].current_streak > 0
    /\ cal.streaks[1].longest_streak > cal.streaks[1].current_streak

\* the length of the run of days with count > 0 and consecutive dates that
\* ends on day i
RECURSIVE ConsecutiveRunEndingAt(_, _)
ConsecutiveRunEndingAt(days, i) ==
    IF i = 0 \/ days[i].count = 0 THEN 0
    ELSE IF i > 1 /\ days[i - 1].date + 1 = days[i].date
         THEN 1 + ConsecutiveRunEndingAt(days, i - 1)
         ELSE 1

\* the longest such run, and the first day on which a run of that length ends
LongestConsecutiveRun(days) ==
    LET runs == {ConsecutiveRunEndingAt(days, i) : i \in 0..Len(days)}
    IN CHOOSE r \in runs : \A q \in runs : q <= r

EarliestLongestEnd(days) ==
    LET r == LongestConsecutiveRun(days)
        ends == {i \in 1..Len(days) : ConsecutiveRunEndingAt(days, i) = r}
    IN CHOOSE i \in ends : \A j \in ends : i <= j

\* C39: longest_streak is the length of the longest run of consecutive dates
\* with count > 0 (0 if there is none) and longest_streak_range spans the
\* earliest such run; days adjacent in the list but not consecutive dates
\* are not joined.
LongestStreakOfConsecutiveDates ==
    cal.streaks # NoneOpt =>
        LET r == LongestConsecutiveRun(cal.days)
        IN /\ cal.streaks[1].longest_streak = r
           /\ cal.streaks[1].longest_streak_range =
                IF r = 0 THEN <<"No streak">>
                ELSE LET e == EarliestLongestEnd(cal.days)
                     IN <<"from", cal.days[e - r + 1].date, "to", cal.days[e].date>>

\* C25: both accessors return the counts of the last 10 days dated today or
\* earlier, oldest first (all of them when there are fewer than 10), and
\* never a day dated after today.
RecentUpToToday ==
    cal.recent # NoneOpt =>
        LET past == {i \in 1..Len(cal.days) : cal.days[i].date <= cal.today}
            k == Cardinality(past)
            from == IF k >= RECENT_DAYS THEN k - RECENT_DAYS ELSE 0
        IN /\ Len(cal.recent[1]) = k - from
           /\ \A j \in 1..(k - from) : cal.recent[1][j] = cal.days[from + j].count

\* the account a repository belongs to: the part of nameWithOwner before "/"
OwnerOf(full_name) ==
    IF full_name \in {"alice/pub", "alice/secret", "alice/forked"} THEN "alice" ELSE "org"

\* C29: with exclude_contrib_repos set, after collect() every repository in
\* repos, and every repository counted in stargazers, forks and languages,
\* belongs to the configured user ("alice").
ExcludeContribKeepsOwned ==
    (rc.pc = "done" /\ rc.filter.exclude_contrib_repos) =>
        /\ \A full_name \in rc.repos : OwnerOf(full_name) = "alice"
        /\ \A n \in rc.counted : OwnerOf(n.nameWithOwner) = "alice"

-----------------------------------------------------------------------------
(* src/core/repo_stats_collector.py: _process_languages and                *)
(* _calculate_language_proportions                                         *)

\* repositories accepted in one collect() run
MaxRepos == 2

LangNames == {"Python", "Go"}
LangSizes == {0, 1, 3}

\* the language edges of a node: some of the languages, each with its size
LangEdges == UNION {[D -> LangSizes] : D \in SUBSET LangNames}

\* the accepted nodes, in the order the loop meets them (a payload flagged
\* isEmpty may still list languages)
LangRepos == [isEmpty : BOOLEAN, edges : LangEdges]

\* (variant) the isEmpty flag is ignored
skips_languages_never(repo) == FALSE

\* "if repo.get("isEmpty"): ... continue"
skips_languages(repo) == repo.isEmpty

\* _process_languages(repo): every edge whose language is not excluded adds
\* its size and one occurrence
process_languages(languages, repo, exclude_langs) ==
    LET kept == DOMAIN repo.edges \ exclude_langs
    IN [lang_name \in DOMAIN languages \cup kept |->
           IF lang_name \notin kept THEN languages[lang_name]
           ELSE IF lang_name \in DOMAIN languages
                THEN [languages[lang_name] EXCEPT
                         !.size = @ + repo.edges[lang_name],
                         !.occurrences = @ + 1]
                ELSE [size |-> repo.edges[lang_name], occurrences |-> 1,
                      prop |-> NoneOpt]]

\* _calculate_language_proportions: prop = 100 * (size / langs_total), kept
\* as the fraction <<100 * size, langs_total>>; 0.0 is <<0, 1>>
calculate_language_proportions(languages) ==
    LET langs_total == SumFn([l \in DOMAIN languages |-> languages[l].size],
                             DOMAIN languages)
    IN [l \in DOMAIN languages |->
           [languages[l] EXCEPT
              !.prop = IF langs_total > 0 THEN Some(<<100 * languages[l].size, langs_total>>)
                       ELSE Some(<<0, 1>>)]]

InitLanguages ==
    \E n \in 0..MaxRepos :
      \E repos \in [1..n -> LangRepos], exclude_langs \in {{}, {"Go"}} :
        lg = [pc |-> "loop", repos |-> repos, exclude_langs |-> exclude_langs,
              i |-> 1, languages |-> <<>>]

\* one iteration of "for repo in repos", from the isEmpty test on
LanguagesOfRepo ==
    /\ lg.pc = "loop"
    /\ lg.i <= Len(lg.repos)
    /\ lg' = [lg EXCEPT
                !.i = @ + 1,
                !.languages = IF skips_languages(lg.repos[lg.i]) THEN @
                              ELSE process_languages(@, lg.repos[lg.i],
                                                     lg.exclude_langs)]
    /\ UNCHANGED outsideLanguages

\* the last statement of collect()
CalculateLanguageProportions ==
    /\ lg.pc = "loop"
    /\ lg.i > Len(lg.repos)
    /\ lg' = [lg EXCEPT !.pc = "done",
                        !.languages = calculate_language_proportions(@)]
    /\ UNCHANGED outsideLanguages

NextLanguages ==
    \/ LanguagesOfRepo
    \/ CalculateLanguageProportions

\* the repositories of the run that are not flagged empty and list lang
ListedIn(lang) ==
    {k \in 1..Len(lg.repos) : ~lg.repos[k].isEmpty /\ lang \in DOMAIN lg.repos[k].edges}

\* C26: after collect(), each language's proportion is 100 * bytes / total
\* bytes and lies in [0, 100]; the proportions sum to 100 when the total is
\* positive and are all 0 when it is 0; bytes and occurrences of a language
\* come from the repositories not flagged empty only.
LanguageProportions ==
    lg.pc = "done" =>
        LET L == lg.languages
            total == SumFn([l \in DOMAIN L |-> L[l].size], DOMAIN L)
            \* a proportion <<a, b>> stands for a / b
            num(l) == L[l].prop[1][1]
            den(l) == L[l].prop[1][2]
        IN /\ \A l \in DOMAIN L :
                /\ L[l].prop # NoneOpt
                /\ den(l) > 0
                /\ 0 <= num(l) /\ num(l) <= 100 * den(l)
                /\ total > 0 => num(l) * total = 100 * L[l].size * den(l)
                /\ total = 0 => num(l) = 0
                /\ l \notin lg.exclude_langs
                /\ L[l].occurrences = Cardinality(ListedIn(l))
                /\ L[l].size = SumFn([k \in ListedIn(l) |-> lg.repos[k].edges[l]],
                                     ListedIn(l))
           /\ total > 0 =>
                /\ \A l \in DOMAIN L : den(l) = total
                /\ SumFn([l \in DOMAIN L |-> num(l)], DOMAIN L) = 100 * total
           /\ \A l \in LangNames \ lg.exclude_langs :
                ListedIn(l) # {} => l \in DOMAIN L

\* two languages with unequal shares, beside a repository flagged empty that
\* lists a language
LanguageProportionsWitness ==
    /\ lg.pc = "done"
    /\ DOMAIN lg.languages = LangNames
    /\ lg.languages["Python"].prop = Some(<<300, 4>>)
    /\ \E k \in 1..Len(lg.repos) : lg.repos[k].isEmpty /\ lg.repos[k].edges # <<>>

-----------------------------------------------------------------------------
(* src/core/code_change_analyzer.py: CodeChangeAnalyzer.analyze            *)

ChangeRepos == {"user/repo-a", "user/repo-b", "user/empty"}

\* what query_rest("/repos/{repo}/stats/contributors") may do: raise (an
\* exception its except clauses do not name, such as asyncio.TimeoutError),
\* return an error payload ({"message": ...}) or the empty dict, or return
\* the list of authors, here reduced to the user's additions and deletions
ContributorAnswers ==
    {[kind |-> "raises"], [kind |-> "message"], [kind |-> "empty dict"]} \cup
    {[kind |-> "list", a |-> a, d |-> d] : a \in {0, 3}, d \in {0, 2}}

\* _ensure_list(data) followed by the sums over the user's weeks
ensure_list(data) ==
    IF data.kind = "list" THEN [a |-> data.a, d |-> data.d] ELSE [a |-> 0, d |-> 0]

InitChanges ==
    \E repos \in SUBSET ChangeRepos, empty_repos \in SUBSET ChangeRepos,
       answers \in [ChangeRepos -> ContributorAnswers] :
        cc = [pc |-> "loop", repos |-> repos, empty_repos |-> empty_repos,
              answers |-> answers, todo |-> repos, queried |-> {},
              additions |-> 0, deletions |-> 0, result |-> NoneOpt]

\* one iteration of "for repo in repos"; an exception of query_rest leaves
\* analyze, which has no try around the call
AnalyzeRepo ==
    /\ cc.pc = "loop"
    /\ \E repo \in cc.todo :
         IF repo \in cc.empty_repos
         THEN cc' = [cc EXCEPT !.todo = @ \ {repo}]
         ELSE IF cc.answers[repo].kind = "raises"
              THEN cc' = [cc EXCEPT !.pc = "raised", !.queried = @ \cup {repo}]
              ELSE LET r == ensure_list(cc.answers[repo])
                   IN cc' = [cc EXCEPT !.todo = @ \ {repo},
                                       !.queried = @ \cup {repo},
                                       !.additions = @ + r.a,
                                       !.deletions = @ + r.d]
    /\ UNCHANGED outsideChanges

\* the statements after the loop: "return self._users_lines_changed"
AnalyzeReturn ==
    /\ cc.pc = "loop"
    /\ cc.todo = {}
    /\ cc' = [cc EXCEPT !.pc = "returned",
                        !.result = Some(<<cc.additions, cc.deletions>>)]
    /\ UNCHANGED outsideChanges

NextChanges ==
    \/ AnalyzeRepo
    \/ AnalyzeReturn

\* the repositories whose query is made and succeeds
Succeeded == {repo \in cc.repos \ cc.empty_repos : cc.answers[repo].kind = "list"}

\* C27: analyze never raises; it returns the additions and deletions summed
\* over the repositories whose query succeeded, skipping those whose query
\* raised or gave an error payload, and it never queries an empty repository.
AnalyzeToleratesFailures ==
    /\ cc.pc # "raised"
    /\ cc.queried \cap cc.empty_repos = {}
    /\ cc.pc = "returned" =>
         cc.result = Some(<<SumFn([repo \in Succeeded |-> cc.answers[repo].a], Succeeded),
                            SumFn([repo \in Succeeded |-> cc.answers[repo].d], Succeeded)>>)

-----------------------------------------------------------------------------
(* src/core/engagement_collector.py, src/core/traffic_collector.py: the    *)
(* per-repository fan-out (fetch_one under a semaphore, asyncio.gather     *)
(* with return_exceptions=True, the loop over the results)                 *)

\* repositories of the largest fan-out
MaxFanout == 11

\* "sem = asyncio.Semaphore(10)"
SEMAPHORE_PERMITS == 10

\* the tasks of gather that hold the fan-out's semaphore
FanInFlight == {k \in 1..Len(fo.task) : fo.task[k] = "in flight"}

\* (variant) the semaphore lets one more task in
sem_locked_one_late(in_flight) == in_flight > SEMAPHORE_PERMITS

\* sem.locked(): every permit is taken
sem_locked(in_flight) == in_flight >= SEMAPHORE_PERMITS

\* repository k's query, when it succeeds, returns k objects
CountOf(k) == k

InitFanout ==
    \E n \in 0..MaxFanout :
        fo = [pc |-> "gather", task |-> [k \in 1..n |-> "created"],
              result |-> NoneOpt]

\* the next task of gather enters "async with sem" and sends its query
\* (tasks start in the order of repo_list; waiters are woken first come,
\* first served)
FetchOneEnters ==
    /\ fo.pc = "gather"
    /\ \E k \in 1..Len(fo.task) :
         /\ fo.task[k] = "created"
         /\ \A j \in 1..(k - 1) : fo.task[j] # "created"
         /\ ~sem_locked(Cardinality(FanInFlight))
         /\ fo' = [fo EXCEPT !.task[k] = "in flight"]
    /\ UNCHANGED outsideFanout

\* query_rest of one task returns or raises; leaving "async with" releases
\* the semaphore; gather keeps the exception as the task's result
FetchOneEnds ==
    /\ fo.pc = "gather"
    /\ \E k \in FanInFlight, outcome \in {"returned", "raised"} :
         fo' = [fo EXCEPT !.task[k] = outcome]
    /\ UNCHANGED outsideFanout

\* gather is over: "for repo, result in zip(repo_list, results)" skips the
\* exceptions and counts the objects of the other results
FanoutReturns ==
    /\ fo.pc = "gather"
    /\ \A k \in 1..Len(fo.task) : fo.task[k] \in {"returned", "raised"}
    /\ LET counted == {k \in 1..Len(fo.task) : fo.task[k] # "raised"}
       IN fo' = [fo EXCEPT !.pc = "returned",
                           !.result = Some(SumFn([k \in counted |-> CountOf(k)], counted))]
    /\ UNCHANGED outsideFanout

NextFanout ==
    \/ FetchOneEnters
    \/ FetchOneEnds
    \/ FanoutReturns

-----------------------------------------------------------------------------
(* src/core/commit_schedule_collector.py: fetch_weekly_schedule;           *)
(* src/utils/privacy.py: mask_weekly_commits                               *)

\* the repositories of the user; PrivateRepos are private on GitHub
ScheduleRepos == {"user/private-repo", "user/repo-a"}
PrivateRepos == {"user/private-repo"}

\* the commits of the week a repository may return: none, one or two; a
\* commit is told apart by its timestamp, which its sha and message name
WeekCommits == {<<>>, <<1>>, <<1, 2>>}
ShaOf(repo, t) == "sha " \o ToString(t) \o " of " \o repo
MessageOf(repo, t) == "message " \o ToString(t) \o " of " \o repo

\* sha[:7]
ShortSha(sha) == "first 7 of " \o sha

\* what GET /repos/{repo} may answer: the repository payload, or a body
\* without "private" (error payload, or dict() after too many 202s)
RepoAnswers == {"payload", "no payload"}

\* _is_private_repo(repo)
is_private_repo(repo, answer) ==
    IF answer = "payload" THEN repo \in PrivateRepos ELSE FALSE

\* the entries fetch_weekly_schedule appends for one repository
EntriesOf(repo, answer, commits) ==
    LET is_private == is_private_repo(repo, answer)
    IN [k \in 1..Len(commits) |->
           [repo |-> repo, sha |-> ShaOf(repo, commits[k]),
            description |-> IF is_private THEN ShortSha(ShaOf(repo, commits[k]))
                            ELSE MessageOf(repo, commits[k]),
            is_private |-> is_private, timestamp |-> commits[k]]]

\* entries.sort(key=timestamp): a stable sort
RECURSIVE SortByTime(_)
SortByTime(entries) ==
    IF entries = <<>> THEN <<>>
    ELSE LET first == CHOOSE i \in 1..Len(entries) :
                        \A j \in 1..Len(entries) :
                            \/ entries[i].timestamp < entries[j].timestamp
                            \/ (entries[i].timestamp = entries[j].timestamp /\ i <= j)
             rest == [k \in 1..(Len(entries) - 1) |->
                        IF k < first THEN entries[k] ELSE entries[k + 1]]
         IN <<entries[first]>> \o SortByTime(rest)

\* fetch_weekly_schedule(repos, username, timezone_name): "for repo in
\* sorted(repos)"
fetch_weekly_schedule(repos, answers, commits) ==
    SortByTime(
        (IF "user/private-repo" \in repos
         THEN EntriesOf("user/private-repo", answers["user/private-repo"],
                        commits["user/private-repo"]) ELSE <<>>)
        \o (IF "user/repo-a" \in repos
            THEN EntriesOf("user/repo-a", answers["user/repo-a"], commits["user/repo-a"])
            ELSE <<>>))

\* masked_repo_name(username)
masked_repo_name(username) == username \o "/private-repo"

\* mask_weekly_commits(commits, username, mask_enabled=...)
mask_weekly_commits(commits, username, mask_enabled) ==
    IF ~mask_enabled THEN commits
    ELSE [k \in 1..Len(commits) |->
            IF commits[k].is_private
            THEN [commits[k] EXCEPT !.repo = masked_repo_name(username),
                                    !.sha = "private",
                                    !.description = "Private commit"]
            ELSE commits[k]]

InitPrivacy ==
    \E repos \in SUBSET ScheduleRepos, answers \in [ScheduleRepos -> RepoAnswers],
       commits \in [ScheduleRepos -> WeekCommits], mask_enabled \in BOOLEAN :
        pm = [pc |-> "new", repos |-> repos, answers |-> answers, commits |-> commits,
              mask_enabled |-> mask_enabled, username |-> "testuser",
              entries |-> <<>>, out |-> <<>>]

\* a caller awaits fetch_weekly_schedule and is handed its entries
FetchWeeklySchedule ==
    /\ pm.pc = "new"
    /\ LET entries == fetch_weekly_schedule(pm.repos, pm.answers, pm.commits)
       IN pm' = [pm EXCEPT !.pc = "fetched", !.entries = entries, !.out = entries]
    /\ UNCHANGED outsidePrivacy

\* a facade's get_weekly_commit_schedule passes the entries through
\* mask_weekly_commits
MaskWeeklyCommits ==
    /\ pm.pc = "fetched"
    /\ pm' = [pm EXCEPT !.pc = "masked",
                        !.out = mask_weekly_commits(pm.entries, pm.username,
                                                    pm.mask_enabled)]
    /\ UNCHANGED outsidePrivacy

NextPrivacy ==
    \/ FetchWeeklySchedule
    \/ MaskWeeklyCommits

\* C30: with masking enabled, every entry handed out that is flagged
\* is_private has description "Private commit" and repository
\* "<username>/private-repo"; no message and no name of a private repository
\* is in the list; entries of public repositories are as they were fetched.
PrivateCommitsMasked ==
    (pm.pc # "new" /\ pm.mask_enabled) =>
        /\ Len(pm.out) = Len(pm.entries)
        /\ \A k \in 1..Len(pm.out) :
             /\ pm.out[k].is_private =>
                  /\ pm.out[k].description = "Private commit"
                  /\ pm.out[k].repo = pm.username \o "/private-repo"
             /\ pm.out[k].repo \notin PrivateRepos
             /\ \A repo \in PrivateRepos, t \in 1..2 :
                  pm.out[k].description # MessageOf(repo, t)
             /\ pm.entries[k].repo \notin PrivateRepos => pm.out[k] = pm.entries[k]

-----------------------------------------------------------------------------
(* src/core/commit_schedule_collector.py: fetch_weekly_schedule and        *)
(* _fetch_repo_commits. Time is counted in half days; an instant is its    *)
(* UTC time, a UTC offset is a number of half days.                        *)

\* "per_page": 100
PER_PAGE == 100
\* timedelta(days=7)
WEEK_DAYS == 7

\* the pages of one repository's commits the server may hold
MaxCommitPages == 2

\* week_start_local, as a local time of the configured zone, and
\* week_end_local = week_start_local + timedelta(days=7)
WeekStarts == {4, 5}
week_end_local(week_start_local) == week_start_local + 2 * WEEK_DAYS

\* the UTC offsets of the configured timezone and of the commit dates
TzOffsets == {0, 1}

\* the commit payloads GitHub may return: an author date, given by its
\* instant and the UTC offset it is written with, or no date at all
Dated(i, o) == [date |-> Some([instant |-> i, offset |-> o])]
DatedCommits == {Dated(i, o) : i \in {3, 4, 5, 17, 18}, o \in {0, 1}}
NoDateCommit == [date |-> NoneOpt]
CommitPayloads == DatedCommits \cup {NoDateCommit}

\* what one GET /repos/{repo}/commits may answer: a full page, a shorter
\* page, or a body that is not a list
FullPage(c) == [k \in 1..PER_PAGE |-> c]
CommitLists ==
    {FullPage(c) : c \in {Dated(5, 1), Dated(6, 0)}}
    \cup {<<>>} \cup {<<c>> : c \in CommitPayloads}
    \cup {<<Dated(5, 1), Dated(6, 0)>>, <<Dated(6, 0), Dated(5, 1)>>,
          <<Dated(6, 1), Dated(5, 0)>>}
CommitPageAnswers ==
    {[is_list |-> TRUE, items |-> l] : l \in CommitLists}
    \cup {[is_list |-> FALSE, items |-> <<>>]}

\* timestamp.isoformat(): the local date and time of the commit's own offset,
\* then "+hh:mm" or "-hh:mm" ("+" sorts before "-")
timestamp_isoformat(timestamp) ==
    <<timestamp.instant + timestamp.offset>>
    \o (IF timestamp.offset >= 0 THEN <<0, timestamp.offset>>
        ELSE <<1, -timestamp.offset>>)

\* the instant an ISO string stands for
InstantOf(iso) == iso[1] - (IF iso[2] = 0 THEN iso[3] ELSE -iso[3])

\* "week_start_local <= local_dt < week_end_local", local_dt = astimezone(tz)
in_week(timestamp, tz, week_start_local) ==
    /\ week_start_local <= timestamp.instant + tz
    /\ timestamp.instant + tz < week_end_local(week_start_local)

\* the loop over the commits of one repository: lines 58-79
ScheduleEntries(commits, tz, week_start_local) ==
    LET kept == SelectSeq(commits, LAMBDA c : /\ c.date # NoneOpt
                                             /\ in_week(c.date[1], tz, week_start_local))
    IN [k \in 1..Len(kept) |-> [timestamp |-> timestamp_isoformat(kept[k].date[1])]]

\* entries.sort(key=lambda item: item.get("timestamp", "")): a stable sort
\* on the strings
RECURSIVE SortFrom(_, _)
SortFrom(entries, keys) ==
    IF keys = {} THEN <<>>
    ELSE LET least == CHOOSE k \in keys : \A j \in keys : StrLeq(k, j)
         IN SelectSeq(entries, LAMBDA e : e.timestamp = least)
            \o SortFrom(entries, keys \ {least})

SortByTimestamp(entries) ==
    SortFrom(entries, {entries[k].timestamp : k \in 1..Len(entries)})

InitSchedule ==
    \E tz \in TzOffsets, week_start_local \in WeekStarts :
        ws = [pc |-> "commits", tz |-> tz, week_start_local |-> week_start_local,
              page |-> 1, all_commits |-> <<>>, answers |-> <<>>, entries |-> <<>>]

\* one iteration of the loop of _fetch_repo_commits; the server's last page
\* is not a full one
FetchRepoCommitsPage ==
    /\ ws.pc = "commits"
    /\ \E result \in CommitPageAnswers :
         /\ ws.page >= MaxCommitPages => Len(result.items) < PER_PAGE
         /\ LET stop == ~result.is_list \/ Len(result.items) = 0
                more == ~stop /\ Len(result.items) >= PER_PAGE
            IN ws' = [ws EXCEPT
                   !.answers = Append(@, Len(result.items)),
                   !.all_commits = IF stop THEN @ ELSE @ \o result.items,
                   !.page = IF more THEN @ + 1 ELSE @,
                   !.pc = IF more THEN "commits" ELSE "entries"]
    /\ UNCHANGED outsideSchedule

\* the rest of fetch_weekly_schedule: the entries of the week, sorted
ScheduleReturn ==
    /\ ws.pc = "entries"
    /\ ws' = [ws EXCEPT !.pc = "returned",
                        !.entries = SortByTimestamp(
                            ScheduleEntries(ws.all_commits, ws.tz, ws.week_start_local))]
    /\ UNCHANGED outsideSchedule

NextSchedule ==
    \/ FetchRepoCommitsPage
    \/ ScheduleReturn

\* C31: the returned entries are in the order of their instants, each lies
\* in the week of the configured timezone, and the pages were fetched up to
\* the first one with fewer than 100 commits.
ScheduleSortedByInstant ==
    ws.pc = "returned" =>
        /\ \A k \in 1..(Len(ws.entries) - 1) :
             InstantOf(ws.entries[k].timestamp) <= InstantOf(ws.entries[k + 1].timestamp)
        /\ \A k \in 1..Len(ws.entries) :
             /\ ws.week_start_local <= InstantOf(ws.entries[k].timestamp) + ws.tz
             /\ InstantOf(ws.entries[k].timestamp) + ws.tz
                    < week_end_local(ws.week_start_local)
        /\ \A k \in 1..(Len(ws.answers) - 1) : ws.answers[k] = PER_PAGE
        /\ ws.answers[Len(ws.answers)] < PER_PAGE

-----------------------------------------------------------------------------
(* src/core/repo_stats_collector.py and src/core/stats_collector.py:       *)
(* the two is_repo_type_excluded                                           *)

\* the repository descriptors: a GraphQL node carries isFork, isArchived and
\* isPrivate, a REST payload fork, archived and private; the keys of the
\* other shape are missing and read as None
TypeDescriptors ==
    {[isFork |-> f, isArchived |-> a, isPrivate |-> p,
      fork |-> FALSE, archived |-> FALSE, private |-> FALSE] : f, a, p \in BOOLEAN}
    \cup
    {[isFork |-> FALSE, isArchived |-> FALSE, isPrivate |-> FALSE,
      fork |-> f, archived |-> a, private |-> p] : f, a, p \in BOOLEAN}

TypeFilters ==
    [include_forked_repos : BOOLEAN, exclude_archive_repos : BOOLEAN,
     exclude_private_repos : BOOLEAN, exclude_public_repos : BOOLEAN]

\* StatsCollector.is_repo_type_excluded(repo_data)
StatsCollector_is_repo_type_excluded(environment_vars, repo_data) ==
    \/ (~environment_vars.include_forked_repos
        /\ (repo_data.isFork \/ repo_data.fork))
    \/ (environment_vars.exclude_archive_repos
        /\ (repo_data.isArchived \/ repo_data.archived))
    \/ (environment_vars.exclude_private_repos
        /\ (repo_data.isPrivate \/ repo_data.private))
    \/ (environment_vars.exclude_public_repos
        /\ (~repo_data.isPrivate \/ ~repo_data.private))

InitRepoType ==
    \E repo_data \in TypeDescriptors, filter \in TypeFilters :
        rt = [pc |-> "new", repo_data |-> repo_data, filter |-> filter,
              repo_stats |-> FALSE, stats |-> FALSE]

\* RepoStatsCollector.is_repo_type_excluded is asked
RepoStatsDecides ==
    /\ rt.pc \in {"new", "stats"}
    /\ rt' = [rt EXCEPT !.pc = IF rt.pc = "new" THEN "repo_stats" ELSE "both",
                        !.repo_stats = is_repo_type_excluded(rt.filter, rt.repo_data)]
    /\ UNCHANGED outsideRepoType

\* StatsCollector.is_repo_type_excluded is asked
StatsDecides ==
    /\ rt.pc \in {"new", "repo_stats"}
    /\ rt' = [rt EXCEPT !.pc = IF rt.pc = "new" THEN "stats" ELSE "both",
                        !.stats = StatsCollector_is_repo_type_excluded(rt.filter,
                                                                       rt.repo_data)]
    /\ UNCHANGED outsideRepoType

NextRepoType ==
    \/ RepoStatsDecides
    \/ StatsDecides

\* the repository is public: neither isPrivate nor private is true
IsPublic(repo_data) == ~repo_data.isPrivate /\ ~repo_data.private

\* a rule other than exclude_public_repos excludes the repository
OtherRuleExcludes(filter, repo_data) ==
    \/ (~filter.include_forked_repos /\ (repo_data.isFork \/ repo_data.fork))
    \/ (filter.exclude_archive_repos /\ (repo_data.isArchived \/ repo_data.archived))
    \/ (filter.exclude_private_repos /\ (repo_data.isPrivate \/ repo_data.private))

\* C32: with exclude_public_repos set and no other rule excluding it, a
\* repository is excluded iff it is public, by either implementation; and the
\* two implementations return the same decision for every descriptor and
\* flag setting.
ExcludePublicAgrees ==
    rt.pc = "both" =>
        /\ rt.repo_stats = rt.stats
        /\ (rt.filter.exclude_public_repos /\ ~OtherRuleExcludes(rt.filter, rt.repo_data))
              => /\ rt.repo_stats = IsPublic(rt.repo_data)
                 /\ rt.stats = IsPublic(rt.repo_data)

-----------------------------------------------------------------------------
(* api/services/stats_service.py: get_github_token;                        *)
(* api/deps/github_token.py: resolve_github_token;                         *)
(* api/main.py: value_error_handler; and a statistics handler of           *)
(* api/routes/users.py behind them                                         *)

\* the values of GITHUB_TOKEN and ACCESS_TOKEN in os.environ
TokenEnvValues == {Unset, "", "server-token"}

\* os.getenv("GITHUB_TOKEN") or os.getenv("ACCESS_TOKEN"); None reads as ""
EnvToken(env) ==
    IF env.GITHUB_TOKEN \notin {Unset, ""} THEN env.GITHUB_TOKEN
    ELSE IF env.ACCESS_TOKEN = Unset THEN "" ELSE env.ACCESS_TOKEN

\* get_github_token(): the token, or ValueError
get_github_token(env) ==
    IF EnvToken(env) = "" THEN [raised |-> "ValueError", token |-> ""]
    ELSE [raised |-> "", token |-> EnvToken(env)]

\* (mutant) the configuration error is answered like a collection failure
value_error_handler_as_warning ==
    [status |-> 200, body |-> "warnings"]

\* value_error_handler(request, exc)
value_error_handler ==
    [status |-> 500, body |-> "Internal server error"]

InitToken ==
    \E g \in TokenEnvValues, a \in TokenEnvValues, x \in {NoToken, "tokA"},
       u \in {"Alice", "bob"}, cached \in BOOLEAN, no_cache \in BOOLEAN :
        tk = [pc |-> "resolve", env |-> [GITHUB_TOKEN |-> g, ACCESS_TOKEN |-> a],
              x_github_token |-> x, username |-> u, cached |-> cached,
              no_cache |-> no_cache, token |-> "", lookedUp |-> FALSE,
              ghCalls |-> 0, status |-> 0, body |-> ""]

\* the dependency resolve_github_token, which runs before the handler body;
\* a ValueError it raises goes to value_error_handler
TokenResolve ==
    /\ tk.pc = "resolve"
    /\ IF tk.x_github_token # NoToken
       THEN \E answer \in UserAnswers(tk.x_github_token) :
              IF validate_user_token(tk.x_github_token, tk.username, answer)
              THEN tk' = [tk EXCEPT !.pc = "handler", !.token = tk.x_github_token,
                                    !.ghCalls = @ + 1]
              ELSE tk' = [tk EXCEPT !.pc = "done", !.status = 403,
                                    !.body = "forbidden", !.ghCalls = @ + 1]
       ELSE LET server_token == get_github_token(tk.env)
            IN IF server_token.raised = "ValueError"
               THEN tk' = [tk EXCEPT !.pc = "done",
                                     !.status = value_error_handler.status,
                                     !.body = value_error_handler.body]
               ELSE tk' = [tk EXCEPT !.pc = "handler", !.token = server_token.token]
    /\ UNCHANGED outsideToken

\* the handler up to create_stats_collector: the cache lookup unless no_cache
TokenHandler ==
    /\ tk.pc = "handler"
    /\ IF ~tk.no_cache /\ tk.cached
       THEN tk' = [tk EXCEPT !.pc = "done", !.lookedUp = TRUE, !.status = 200,
                             !.body = "cached"]
       ELSE tk' = [tk EXCEPT !.pc = "collecting", !.lookedUp = ~tk.no_cache]
    /\ UNCHANGED outsideToken

\* create_stats_collector ("token or get_github_token()") and the
\* PartialCollector calls: each collector either answers or fails and is
\* replaced by its fallback with a warning
TokenCollect ==
    /\ tk.pc = "collecting"
    /\ LET effective_token == IF tk.token # "" THEN [raised |-> "", token |-> tk.token]
                              ELSE get_github_token(tk.env)
       IN IF effective_token.raised = "ValueError"
          THEN tk' = [tk EXCEPT !.pc = "done", !.status = value_error_handler.status,
                                !.body = value_error_handler.body]
          ELSE \E failed \in BOOLEAN :
                 tk' = [tk EXCEPT !.pc = "done", !.status = 200, !.ghCalls = @ + 1,
                                  !.cached = TRUE,
                                  !.body = IF failed THEN "warnings" ELSE "data"]
    /\ UNCHANGED outsideToken

NextToken ==
    \/ TokenResolve
    \/ TokenHandler
    \/ TokenCollect

\* neither GITHUB_TOKEN nor ACCESS_TOKEN is configured and the request
\* carries no X-GitHub-Token
NoTokenAtAll ==
    /\ tk.env.GITHUB_TOKEN \in {Unset, ""}
    /\ tk.env.ACCESS_TOKEN \in {Unset, ""}
    /\ tk.x_github_token = NoToken

\* C33: without a server token and without X-GitHub-Token the request is
\* answered 500, never 200, without a cache lookup and without a GitHub
\* request, also when the cache holds an entry for it.
MissingTokenIsFatal ==
    (tk.pc # "none" /\ NoTokenAtAll) =>
        /\ tk.ghCalls = 0
        /\ ~tk.lookedUp
        /\ tk.pc \in {"resolve", "done"}
        /\ tk.pc = "done" => (tk.status = 500 /\ tk.body = "Internal server error")

MissingTokenWitness ==
    /\ tk.pc = "done"
    /\ NoTokenAtAll
    /\ tk.cached
    /\ ~tk.no_cache
    /\ tk.status = 500

-----------------------------------------------------------------------------
(* api/routes/users.py: _paginate and get_user_repositories                *)

\* the longest repository list, and the requests of one behaviour
MaxItems == 3
MaxPageRequests == 3

\* the values of page and per_page (both validated >= 1)
PageNumbers == {1, 2, 3, 11}
PageSizes == {1, 2, 11}

\* sorted(list(repos)): the first n repository names
RepoNames == <<"a/r1", "a/r2", "a/r3", "a/r4", "a/r5">>
ItemLists == {SubSeq(RepoNames, 1, n) : n \in 0..MaxItems}

\* math.ceil(total / per_page)
ceil_div(total, per_page) == (total + per_page - 1) \div per_page

\* items[start:end]
Slice(items, start, end) ==
    IF start >= Len(items) THEN <<>>
    ELSE SubSeq(items, start + 1, IF end < Len(items) THEN end ELSE Len(items))

\* _paginate(items, page, per_page)
paginate(items, page, per_page) ==
    LET total == Len(items)
        total_pages == IF ceil_div(total, per_page) > 1
                       THEN ceil_div(total, per_page) ELSE 1
        start == (page - 1) * per_page
        end == start + per_page
    IN [data |-> Slice(items, start, end),
        pagination |-> [page |-> page, per_page |-> per_page, total |-> total,
                        total_pages |-> total_pages,
                        has_next |-> page < total_pages,
                        has_prev |-> page > 1]]

\* (mutant) the page size is left out of the key
repositories_endpoint_page_only(page, per_page) ==
    "repositories:p" \o ToString(page)

\* f"repositories:p{pagination.page}:{pagination.per_page}"
repositories_endpoint(page, per_page) ==
    "repositories:p" \o ToString(page) \o ":" \o ToString(per_page)

PageKeys == {repositories_endpoint(p, s) : p \in PageNumbers, s \in PageSizes}
           \cup {repositories_endpoint_page_only(p, s) : p \in PageNumbers, s \in PageSizes}

NoPage == [data |-> <<>>,
           pagination |-> [page |-> 0, per_page |-> 0, total |-> 0, total_pages |-> 0,
                           has_next |-> FALSE, has_prev |-> FALSE]]

InitPaginate ==
    \E items \in ItemLists :
        pg = [pc |-> "serving", items |-> items, cache |-> [k \in PageKeys |-> NoPage],
              requests |-> 0, page |-> 0, per_page |-> 0, hit |-> FALSE,
              response |-> NoPage]

\* GET /users/{username}/repositories?page=..&per_page=..&no_cache=..
GetUserRepositories ==
    /\ pg.pc = "serving"
    /\ pg.requests < MaxPageRequests
    /\ \E page \in PageNumbers, per_page \in PageSizes, no_cache \in BOOLEAN :
         LET endpoint == repositories_endpoint(page, per_page)
             hit == ~no_cache /\ pg.cache[endpoint] # NoPage
             data == paginate(pg.items, page, per_page)
         IN pg' = [pg EXCEPT
                !.requests = @ + 1, !.page = page, !.per_page = per_page,
                !.hit = hit,
                !.response = IF hit THEN pg.cache[endpoint] ELSE data,
                !.cache = IF hit THEN @ ELSE [@ EXCEPT ![endpoint] = data]]
    /\ UNCHANGED outsidePaginate

NextPaginate == GetUserRepositories

\* the pages 1..n of a list, one after the other
RECURSIVE PagesUpTo(_, _, _)
PagesUpTo(items, n, per_page) ==
    IF n = 0 THEN <<>>
    ELSE PagesUpTo(items, n - 1, per_page) \o paginate(items, n, per_page).data

\* C34: the page served for (page, per_page) reports total = len(items) and
\* total_pages = max(1, ceil(total / per_page)), is the slice of that page,
\* is empty beyond total_pages, has_next iff page < total_pages and has_prev
\* iff page > 1; the pages 1..total_pages put together are the whole list;
\* and the page served, from the cache or not, is the one of the requested
\* page and page size.
PaginationContract ==
    pg.requests > 0 =>
        LET meta == pg.response.pagination
            total == Len(pg.items)
        IN /\ meta.page = pg.page
           /\ meta.per_page = pg.per_page
           /\ meta.total = total
           /\ meta.total_pages >= 1
           /\ meta.total_pages * pg.per_page >= total
           /\ meta.total_pages > 1 => (meta.total_pages - 1) * pg.per_page < total
           /\ meta.has_next = (pg.page < meta.total_pages)
           /\ meta.has_prev = (pg.page > 1)
           /\ pg.page > meta.total_pages => pg.response.data = <<>>
           /\ pg.response.data =
                [k \in 1..Len(pg.response.data) |-> pg.items[(pg.page - 1) * pg.per_page + k]]
           /\ pg.page <= meta.total_pages =>
                Len(pg.response.data)
                    = (IF pg.page * pg.per_page <= total THEN pg.per_page
                       ELSE total - (pg.page - 1) * pg.per_page)
           /\ PagesUpTo(pg.items, meta.total_pages, pg.per_page) = pg.items

PaginationWitness ==
    /\ pg.requests > 1
    /\ pg.hit
    /\ pg.page = 2
    /\ pg.per_page = 2
    /\ Len(pg.items) = 3
    /\ pg.cache[repositories_endpoint(2, 1)] # NoPage

-----------------------------------------------------------------------------
(* src/core/stats_collector.py: StatsCollector.get_stats, page by page,    *)
(* and the accessors that read the fields it fills (repos, stargazers,     *)
(* languages) or derive a metric from repos (pull_requests); the tasks are *)
(* those of asyncio.gather in ImageOrchestrator.start                      *)

\* the pages of the repositories query: each repository has one star, one
\* language and one pull request
StatsPages == <<{"u/r1"}, {"u/r2"}>>
AllStatsRepos == UNION {StatsPages[k] : k \in 1..Len(StatsPages)}

StatsAccessors == {"repos", "stargazers", "languages", "pull_requests"}

\* the value of a field once a collection has completed
CompleteValue(accessor) ==
    IF accessor \in {"repos", "languages"} THEN [set |-> AllStatsRepos, count |-> 0]
    ELSE [set |-> {}, count |-> Cardinality(AllStatsRepos)]

NoValue == [set |-> {}, count |-> 0]
IdleStatsTask == [pc |-> "idle", accessor |-> "", page |-> 0, repos |-> {},
                  result |-> NoValue]

InitStats ==
    gs = [_repos |-> NoneOpt, _stargazers |-> NoneOpt, _languages |-> NoneOpt,
          _pull_requests |-> NoneOpt, task |-> [t \in Tasks |-> IdleStatsTask]]

\* the field an accessor tests with "is not None"
FieldOf(accessor) ==
    IF accessor = "repos" THEN gs._repos
    ELSE IF accessor = "stargazers" THEN gs._stargazers
    ELSE IF accessor = "languages" THEN gs._languages
    ELSE gs._pull_requests

\* the value an accessor returns from the fields as they are
ValueOf(accessor) ==
    IF accessor = "repos" THEN [set |-> gs._repos[1], count |-> 0]
    ELSE IF accessor = "stargazers" THEN [set |-> {}, count |-> gs._stargazers[1]]
    ELSE IF accessor = "languages" THEN [set |-> gs._languages[1], count |-> 0]
    ELSE [set |-> {}, count |-> gs._pull_requests[1]]

\* an accessor up to its first await. repos, stargazers and languages return
\* the field if it is not None and enter get_stats otherwise; pull_requests
\* returns its memo if set, else sets it to 0 and reads "await self.repos".
\* get_stats starts by setting the fields to 0 / empty.
StatsAccessorCall(t) ==
    /\ gs.task[t].pc = "idle"
    /\ \E accessor \in StatsAccessors :
         IF FieldOf(accessor) # NoneOpt
         THEN gs' = [gs EXCEPT !.task[t] = [@ EXCEPT !.pc = "done",
                                                     !.accessor = accessor,
                                                     !.result = ValueOf(accessor)]]
         ELSE IF accessor = "pull_requests" /\ gs._repos # NoneOpt
         THEN gs' = [gs EXCEPT !._pull_requests = Some(0),
                               !.task[t] = [@ EXCEPT !.pc = "deriving",
                                                     !.accessor = accessor,
                                                     !.repos = gs._repos[1]]]
         ELSE gs' = [gs EXCEPT !._pull_requests =
                                   IF accessor = "pull_requests" THEN Some(0) ELSE @,
                               !._stargazers = Some(0),
                               !._languages = Some({}),
                               !._repos = Some({}),
                               !.task[t] = [@ EXCEPT !.pc = "get_stats",
                                                     !.accessor = accessor,
                                                     !.page = 1]]
    /\ UNCHANGED outsideStats

\* one query of get_stats is answered: the repositories of the page that are
\* not in _repos yet are added and counted; after the last page get_stats
\* returns and the accessor reads its field
GetStatsPage(t) ==
    /\ gs.task[t].pc = "get_stats"
    /\ LET new == StatsPages[gs.task[t].page] \ gs._repos[1]
           repos == gs._repos[1] \cup new
           stargazers == gs._stargazers[1] + Cardinality(new)
           languages == gs._languages[1] \cup new
           last == gs.task[t].page = Len(StatsPages)
           accessor == gs.task[t].accessor
       IN gs' = [gs EXCEPT
              !._repos = Some(repos),
              !._stargazers = Some(stargazers),
              !._languages = Some(languages),
              !.task[t] =
                  IF ~last THEN [@ EXCEPT !.page = @ + 1]
                  ELSE IF accessor = "pull_requests"
                  THEN [@ EXCEPT !.pc = "deriving", !.repos = repos]
                  ELSE [@ EXCEPT !.pc = "done",
                                 !.result =
                                     IF accessor = "stargazers"
                                     THEN [set |-> {}, count |-> stargazers]
                                     ELSE IF accessor = "repos"
                                     THEN [set |-> repos, count |-> 0]
                                     ELSE [set |-> languages, count |-> 0]]]
    /\ UNCHANGED outsideStats

\* the loop of pull_requests over the repositories it was given
PullRequestsReturn(t) ==
    /\ gs.task[t].pc = "deriving"
    /\ LET total == gs._pull_requests[1] + Cardinality(gs.task[t].repos)
       IN gs' = [gs EXCEPT !._pull_requests = Some(total),
                           !.task[t] = [@ EXCEPT !.pc = "done",
                                                 !.result = [set |-> {}, count |-> total]]]
    /\ UNCHANGED outsideStats

NextStats ==
    \/ \E t \in Tasks : StatsAccessorCall(t)
    \/ \E t \in Tasks : GetStatsPage(t)
    \/ \E t \in Tasks : PullRequestsReturn(t)

\* C35: every accessor that has returned, returned the value of a completed
\* collection, however the tasks interleave; a derived metric was computed
\* from the complete repository set.
AccessorsSeeCompleteStats ==
    gs # [pc |-> "none"] =>
        \A t \in Tasks :
            /\ gs.task[t].pc = "done" =>
                 gs.task[t].result = CompleteValue(gs.task[t].accessor)
            /\ gs.task[t].pc = "deriving" => gs.task[t].repos = AllStatsRepos

-----------------------------------------------------------------------------
(* src/core/repo_stats_collector.py: the while loop of collect() over the  *)
(* owned and the contributed-to connection, each served by cursor          *)

\* the most pages a connection holds
MaxConnPages == 3

\* a cursor is the number of the page it ends; None is the first request
NoCursor == 0

\* how the server answers a cursor past the end: an empty page, not
\* hasNextPage, and an endCursor that is null or the cursor it was given
PastEndStyles == {"null", "same"}

\* the pageInfo and page of a connection of n pages for "after: cursor"
Connection(n, cursor, style) ==
    IF cursor < n
    THEN [page |-> cursor + 1, hasNextPage |-> cursor + 1 < n,
          endCursor |-> cursor + 1]
    ELSE [page |-> 0, hasNextPage |-> FALSE,
          endCursor |-> IF style = "null" THEN NoCursor ELSE cursor]

\* (mutant) only the owned connection decides
has_next_page_owned(owned_page_info, contrib_page_info) ==
    owned_page_info.hasNextPage

\* owned_page_info.get("hasNextPage") or contrib_page_info.get("hasNextPage")
has_next_page(owned_page_info, contrib_page_info) ==
    owned_page_info.hasNextPage \/ contrib_page_info.hasNextPage

InitPaging ==
    \E owned \in 0..MaxConnPages, contrib \in 0..MaxConnPages, style \in PastEndStyles :
        cp = [pc |-> "loop", owned |-> owned, contrib |-> contrib, style |-> style,
              next_owned |-> NoCursor, next_contrib |-> NoCursor, queries |-> 0,
              iterations |-> 0, seen_owned |-> {}, seen_contrib |-> {},
              more |-> TRUE]

\* one iteration of the while loop: the query with both cursors, the loop
\* over the nodes, and the pageInfo test. pageInfo always carries endCursor,
\* so get("endCursor", next_owned) is the endCursor of the answer.
CollectIteration ==
    /\ cp.pc = "loop"
    /\ cp.iterations < (MaxConnPages + 2) * (MaxConnPages + 2)
    /\ LET owned_repos == Connection(cp.owned, cp.next_owned, cp.style)
           contrib_repos == Connection(cp.contrib, cp.next_contrib, cp.style)
           more == has_next_page(owned_repos, contrib_repos)
       IN cp' = [cp EXCEPT
              !.queries = @ + 1,
              !.iterations = @ + 1,
              !.seen_owned = @ \cup ({owned_repos.page} \ {0}),
              !.seen_contrib = @ \cup ({contrib_repos.page} \ {0}),
              !.more = more,
              !.next_owned = IF more THEN owned_repos.endCursor ELSE @,
              !.next_contrib = IF more THEN contrib_repos.endCursor ELSE @,
              !.pc = IF more THEN "loop" ELSE "returned"]
    /\ UNCHANGED outsidePaging

NextPaging == CollectIteration

\* C38: collect() terminates; it stops at the first response in which
\* neither connection reports hasNextPage, has then processed every page of
\* both connections, and has issued one query per iteration.
CollectPagingTerminates ==
    /\ <>(cp.pc = "returned")
    /\ [](cp.pc = "returned" =>
            /\ ~cp.more
            /\ cp.seen_owned = 1..cp.owned
            /\ cp.seen_contrib = 1..cp.contrib)
    /\ [](cp.pc = "loop" => cp.more)
    /\ [](cp.queries = cp.iterations)

\* a run over connections of three and one pages that has returned: the
\* shorter connection was asked past its end
CollectPagingWitness ==
    /\ cp.pc = "returned"
    /\ cp.owned = 3
    /\ cp.contrib = 1
    /\ cp.style = "null"
    /\ cp.queries = 3
    /\ cp.next_contrib = NoCursor
    /\ cp.next_owned = 2

-----------------------------------------------------------------------------
(* Specifications                                                          *)

\* the components at rest, for the specifications that do not move them
IdleCache ==
    /\ InitCache
    /\ ~redisUrl
    /\ ~redisUp
IdleRequests == req = [r \in ReqIds |-> IdleReq]
IdleEnviron == environ = DefaultEnviron
IdleDispatch == wd = [pc |-> "none"]
IdleClient == cl = [pc |-> "none"]
IdlePool == pool = [pc |-> "none"]
IdleHealth == hl = [pc |-> "none"]
IdleEval == ev = [pc |-> "none"]
IdleStore == ss = [pc |-> "none"]
IdleWebhooks == wh = [pc |-> "none"]
IdleCalendar == cal = [pc |-> "none"]
IdleChanges == cc = [pc |-> "none"]
IdleFanout == fo = [pc |-> "none"]
IdlePrivacy == pm = [pc |-> "none"]
IdleLanguages == lg = [pc |-> "none"]
IdleSchedule == ws = [pc |-> "none"]
IdleRepoType == rt = [pc |-> "none"]
IdlePaginate == pg = [pc |-> "none"]
IdleToken == tk = [pc |-> "none"]
IdleStats == gs = [pc |-> "none"]
IdlePaging == cp = [pc |-> "none"]

Init ==
    /\ InitCache /\ InitApi /\ IdleRepo /\ IdlePartial /\ IdleFlight
    /\ IdleMemo /\ IdleSnapshots /\ IdleTraffic /\ IdleDispatch
    /\ IdleClient /\ IdlePool /\ IdleHealth /\ IdleEval /\ IdleStore
    /\ IdleWebhooks /\ IdleCalendar /\ IdleChanges /\ IdleFanout
    /\ IdlePrivacy /\ IdleLanguages /\ IdleSchedule /\ IdleRepoType
    /\ IdlePaginate /\ IdleToken /\ IdleStats /\ IdlePaging

Next ==
    \/ NextCache
    \/ NextApi
    \/ NextRepo
    \/ NextPartial
    \/ NextFlight
    \/ NextMemo
    \/ NextSnapshots
    \/ NextTraffic
    \/ NextDispatch
    \/ NextClient
    \/ NextPool
    \/ NextHealth
    \/ NextEval
    \/ NextStore
    \/ NextWebhooks
    \/ NextCalendar
    \/ NextChanges
    \/ NextFanout
    \/ NextPrivacy
    \/ NextLanguages
    \/ NextSchedule
    \/ NextRepoType
    \/ NextPaginate
    \/ NextToken
    \/ NextStats
    \/ NextPaging

Spec == Init /\ [][Next]_vars

\* the cache alone, driven by arbitrary callers
InitSpecCache ==
    /\ InitCache /\ InitApi /\ IdleRepo /\ IdlePartial /\ IdleFlight
    /\ IdleMemo /\ IdleSnapshots /\ IdleTraffic /\ IdleDispatch
    /\ IdleClient /\ IdlePool /\ IdleHealth /\ IdleEval /\ IdleStore
    /\ IdleWebhooks /\ IdleCalendar /\ IdleChanges /\ IdleFanout
    /\ IdlePrivacy /\ IdleLanguages /\ IdleSchedule /\ IdleRepoType
    /\ IdlePaginate /\ IdleToken /\ IdleStats /\ IdlePaging
SpecCache == InitSpecCache /\ [][NextCache]_vars

\* requests to the cached endpoints
InitSpecApi ==
    /\ InitCache /\ InitApi /\ IdleRepo /\ IdlePartial /\ IdleFlight
    /\ IdleMemo /\ IdleSnapshots /\ IdleTraffic /\ IdleDispatch
    /\ IdleClient /\ IdlePool /\ IdleHealth /\ IdleEval /\ IdleStore
    /\ IdleWebhooks /\ IdleCalendar /\ IdleChanges /\ IdleFanout
    /\ IdlePrivacy /\ IdleLanguages /\ IdleSchedule /\ IdleRepoType
    /\ IdlePaginate /\ IdleToken /\ IdleStats /\ IdlePaging
SpecApi == InitSpecApi /\ [][NextApi]_vars

\* one RepoStatsCollector.collect() run
InitSpecRepo ==
    /\ IdleCache /\ IdleRequests /\ InitRepo /\ IdlePartial /\ IdleFlight
    /\ IdleMemo /\ IdleSnapshots /\ IdleTraffic /\ IdleDispatch
    /\ IdleClient /\ IdlePool /\ IdleHealth /\ IdleEval /\ IdleStore
    /\ IdleWebhooks /\ IdleCalendar /\ IdleChanges /\ IdleFanout
    /\ IdlePrivacy /\ IdleLanguages /\ IdleSchedule /\ IdleRepoType
    /\ IdlePaginate /\ IdleToken /\ IdleStats /\ IdlePaging
SpecRepo == InitSpecRepo /\ [][NextRepo]_vars

\* one handler's sequence of PartialCollector.safe calls and its response
InitSpecPartial ==
    /\ IdleCache /\ IdleRequests /\ IdleEnviron /\ IdleRepo /\ InitPartial
    /\ IdleFlight /\ IdleMemo /\ IdleSnapshots /\ IdleTraffic
    /\ IdleDispatch /\ IdleClient /\ IdlePool /\ IdleHealth /\ IdleEval
    /\ IdleStore /\ IdleWebhooks /\ IdleCalendar /\ IdleChanges
    /\ IdleFanout /\ IdlePrivacy /\ IdleLanguages /\ IdleSchedule
    /\ IdleRepoType /\ IdlePaginate /\ IdleToken /\ IdleStats /\ IdlePaging
SpecPartial == InitSpecPartial /\ [][NextPartial]_vars

\* tasks calling the lazy accessors of one collector instance
InitSpecFlight ==
    /\ IdleCache /\ IdleRequests /\ IdleEnviron /\ IdleRepo /\ IdlePartial
    /\ InitFlight /\ IdleMemo /\ IdleSnapshots /\ IdleTraffic
    /\ IdleDispatch /\ IdleClient /\ IdlePool /\ IdleHealth /\ IdleEval
    /\ IdleStore /\ IdleWebhooks /\ IdleCalendar /\ IdleChanges
    /\ IdleFanout /\ IdlePrivacy /\ IdleLanguages /\ IdleSchedule
    /\ IdleRepoType /\ IdlePaginate /\ IdleToken /\ IdleStats /\ IdlePaging
SpecFlight == InitSpecFlight /\ [][NextFlight]_vars

\* sequential calls of the memoising operations of one instance
InitSpecMemo ==
    /\ IdleCache /\ IdleRequests /\ IdleEnviron /\ IdleRepo /\ IdlePartial
    /\ IdleFlight /\ InitMemo /\ IdleSnapshots /\ IdleTraffic
    /\ IdleDispatch /\ IdleClient /\ IdlePool /\ IdleHealth /\ IdleEval
    /\ IdleStore /\ IdleWebhooks /\ IdleCalendar /\ IdleChanges
    /\ IdleFanout /\ IdlePrivacy /\ IdleLanguages /\ IdleSchedule
    /\ IdleRepoType /\ IdlePaginate /\ IdleToken /\ IdleStats /\ IdlePaging
SpecMemo == InitSpecMemo /\ [][NextMemo]_vars

\* concurrent POST /history/snapshot requests of one user
InitSpecSnapshots ==
    /\ IdleCache /\ IdleRequests /\ IdleEnviron /\ IdleRepo /\ IdlePartial
    /\ IdleFlight /\ IdleMemo /\ InitSnapshots /\ IdleTraffic
    /\ IdleDispatch /\ IdleClient /\ IdlePool /\ IdleHealth /\ IdleEval
    /\ IdleStore /\ IdleWebhooks /\ IdleCalendar /\ IdleChanges
    /\ IdleFanout /\ IdlePrivacy /\ IdleLanguages /\ IdleSchedule
    /\ IdleRepoType /\ IdlePaginate /\ IdleToken /\ IdleStats /\ IdlePaging
SpecSnapshots == InitSpecSnapshots /\ [][NextSnapshots]_vars

\* requests sharing the persistent traffic store
InitSpecTraffic ==
    /\ IdleCache /\ IdleRequests /\ IdleEnviron /\ IdleRepo /\ IdlePartial
    /\ IdleFlight /\ IdleMemo /\ IdleSnapshots /\ InitTraffic
    /\ IdleDispatch /\ IdleClient /\ IdlePool /\ IdleHealth /\ IdleEval
    /\ IdleStore /\ IdleWebhooks /\ IdleCalendar /\ IdleChanges
    /\ IdleFanout /\ IdlePrivacy /\ IdleLanguages /\ IdleSchedule
    /\ IdleRepoType /\ IdlePaginate /\ IdleToken /\ IdleStats /\ IdlePaging
SpecTraffic == InitSpecTraffic /\ [][NextTraffic]_vars

\* one POST /history/snapshot request through dispatch_webhooks, hook by hook
InitSpecDispatch ==
    /\ IdleCache /\ IdleRequests /\ IdleEnviron /\ IdleRepo /\ IdlePartial
    /\ IdleFlight /\ IdleMemo /\ IdleSnapshots /\ IdleTraffic
    /\ InitDispatch /\ IdleClient /\ IdlePool /\ IdleHealth /\ IdleEval
    /\ IdleStore /\ IdleWebhooks /\ IdleCalendar /\ IdleChanges
    /\ IdleFanout /\ IdlePrivacy /\ IdleLanguages /\ IdleSchedule
    /\ IdleRepoType /\ IdlePaginate /\ IdleToken /\ IdleStats /\ IdlePaging
SpecDispatch == InitSpecDispatch /\ [][NextDispatch]_vars

\* one GitHubClient call, attempt by attempt
InitSpecClient ==
    /\ IdleCache /\ IdleRequests /\ IdleEnviron /\ IdleRepo /\ IdlePartial
    /\ IdleFlight /\ IdleMemo /\ IdleSnapshots /\ IdleTraffic
    /\ IdleDispatch /\ InitClient /\ IdlePool /\ IdleHealth /\ IdleEval
    /\ IdleStore /\ IdleWebhooks /\ IdleCalendar /\ IdleChanges
    /\ IdleFanout /\ IdlePrivacy /\ IdleLanguages /\ IdleSchedule
    /\ IdleRepoType /\ IdlePaginate /\ IdleToken /\ IdleStats /\ IdlePaging
SpecClient == InitSpecClient /\ [][NextClient]_vars

\* callers sharing the semaphore of one GitHubClient
InitSpecPool ==
    /\ IdleCache /\ IdleRequests /\ IdleEnviron /\ IdleRepo /\ IdlePartial
    /\ IdleFlight /\ IdleMemo /\ IdleSnapshots /\ IdleTraffic
    /\ IdleDispatch /\ IdleClient /\ InitPool /\ IdleHealth /\ IdleEval
    /\ IdleStore /\ IdleWebhooks /\ IdleCalendar /\ IdleChanges
    /\ IdleFanout /\ IdlePrivacy /\ IdleLanguages /\ IdleSchedule
    /\ IdleRepoType /\ IdlePaginate /\ IdleToken /\ IdleStats /\ IdlePaging
SpecPool == InitSpecPool /\ [][NextPool]_vars

\* GET /health over the observed breaker and rate-limit states
InitSpecHealth ==
    /\ IdleCache /\ IdleRequests /\ IdleEnviron /\ IdleRepo /\ IdlePartial
    /\ IdleFlight /\ IdleMemo /\ IdleSnapshots /\ IdleTraffic
    /\ IdleDispatch /\ IdleClient /\ IdlePool /\ InitHealth /\ IdleEval
    /\ IdleStore /\ IdleWebhooks /\ IdleCalendar /\ IdleChanges
    /\ IdleFanout /\ IdlePrivacy /\ IdleLanguages /\ IdleSchedule
    /\ IdleRepoType /\ IdlePaginate /\ IdleToken /\ IdleStats /\ IdlePaging
SpecHealth == InitSpecHealth /\ [][NextHealth]_vars

\* evaluate_conditions over conditions and snapshot pairs
InitSpecEval ==
    /\ IdleCache /\ IdleRequests /\ IdleEnviron /\ IdleRepo /\ IdlePartial
    /\ IdleFlight /\ IdleMemo /\ IdleSnapshots /\ IdleTraffic
    /\ IdleDispatch /\ IdleClient /\ IdlePool /\ IdleHealth /\ InitEval
    /\ IdleStore /\ IdleWebhooks /\ IdleCalendar /\ IdleChanges
    /\ IdleFanout /\ IdlePrivacy /\ IdleLanguages /\ IdleSchedule
    /\ IdleRepoType /\ IdlePaginate /\ IdleToken /\ IdleStats /\ IdlePaging
SpecEval == InitSpecEval /\ [][NextEval]_vars

\* save_snapshot calls and queries on the snapshot store
InitSpecStore ==
    /\ IdleCache /\ IdleRequests /\ IdleEnviron /\ IdleRepo /\ IdlePartial
    /\ IdleFlight /\ IdleMemo /\ IdleSnapshots /\ IdleTraffic
    /\ IdleDispatch /\ IdleClient /\ IdlePool /\ IdleHealth /\ IdleEval
    /\ InitStore /\ IdleWebhooks /\ IdleCalendar /\ IdleChanges
    /\ IdleFanout /\ IdlePrivacy /\ IdleLanguages /\ IdleSchedule
    /\ IdleRepoType /\ IdlePaginate /\ IdleToken /\ IdleStats /\ IdlePaging
SpecStore == InitSpecStore /\ [][NextStore]_vars

\* registrations, listings and deletions through the webhook routes
InitSpecWebhooks ==
    /\ IdleCache /\ IdleRequests /\ IdleEnviron /\ IdleRepo /\ IdlePartial
    /\ IdleFlight /\ IdleMemo /\ IdleSnapshots /\ IdleTraffic
    /\ IdleDispatch /\ IdleClient /\ IdlePool /\ IdleHealth /\ IdleEval
    /\ IdleStore /\ InitWebhooks /\ IdleCalendar /\ IdleChanges
    /\ IdleFanout /\ IdlePrivacy /\ IdleLanguages /\ IdleSchedule
    /\ IdleRepoType /\ IdlePaginate /\ IdleToken /\ IdleStats /\ IdlePaging
SpecWebhooks == InitSpecWebhooks /\ [][NextWebhooks]_vars

\* one contribution calendar through the streak computation and the recent-contributions accessors
InitSpecCalendar ==
    /\ IdleCache /\ IdleRequests /\ IdleEnviron /\ IdleRepo /\ IdlePartial
    /\ IdleFlight /\ IdleMemo /\ IdleSnapshots /\ IdleTraffic
    /\ IdleDispatch /\ IdleClient /\ IdlePool /\ IdleHealth /\ IdleEval
    /\ IdleStore /\ IdleWebhooks /\ InitCalendar /\ IdleChanges
    /\ IdleFanout /\ IdlePrivacy /\ IdleLanguages /\ IdleSchedule
    /\ IdleRepoType /\ IdlePaginate /\ IdleToken /\ IdleStats /\ IdlePaging
SpecCalendar == InitSpecCalendar /\ [][NextCalendar]_vars

\* one CodeChangeAnalyzer.analyze run, repository by repository
InitSpecChanges ==
    /\ IdleCache /\ IdleRequests /\ IdleEnviron /\ IdleRepo /\ IdlePartial
    /\ IdleFlight /\ IdleMemo /\ IdleSnapshots /\ IdleTraffic
    /\ IdleDispatch /\ IdleClient /\ IdlePool /\ IdleHealth /\ IdleEval
    /\ IdleStore /\ IdleWebhooks /\ IdleCalendar /\ InitChanges
    /\ IdleFanout /\ IdlePrivacy /\ IdleLanguages /\ IdleSchedule
    /\ IdleRepoType /\ IdlePaginate /\ IdleToken /\ IdleStats /\ IdlePaging
SpecChanges == InitSpecChanges /\ [][NextChanges]_vars

\* one per-repository fan-out of a collector
InitSpecFanout ==
    /\ IdleCache /\ IdleRequests /\ IdleEnviron /\ IdleRepo /\ IdlePartial
    /\ IdleFlight /\ IdleMemo /\ IdleSnapshots /\ IdleTraffic
    /\ IdleDispatch /\ IdleClient /\ IdlePool /\ IdleHealth /\ IdleEval
    /\ IdleStore /\ IdleWebhooks /\ IdleCalendar /\ IdleChanges
    /\ InitFanout /\ IdlePrivacy /\ IdleLanguages /\ IdleSchedule
    /\ IdleRepoType /\ IdlePaginate /\ IdleToken /\ IdleStats /\ IdlePaging
SpecFanout == InitSpecFanout /\ [][NextFanout]_vars

\* one fetch_weekly_schedule run and what reaches its caller
InitSpecPrivacy ==
    /\ IdleCache /\ IdleRequests /\ IdleEnviron /\ IdleRepo /\ IdlePartial
    /\ IdleFlight /\ IdleMemo /\ IdleSnapshots /\ IdleTraffic
    /\ IdleDispatch /\ IdleClient /\ IdlePool /\ IdleHealth /\ IdleEval
    /\ IdleStore /\ IdleWebhooks /\ IdleCalendar /\ IdleChanges
    /\ IdleFanout /\ InitPrivacy /\ IdleLanguages /\ IdleSchedule
    /\ IdleRepoType /\ IdlePaginate /\ IdleToken /\ IdleStats /\ IdlePaging
SpecPrivacy == InitSpecPrivacy /\ [][NextPrivacy]_vars

\* the language aggregation of one collect() run and its proportions
InitSpecLanguages ==
    /\ IdleCache /\ IdleRequests /\ IdleEnviron /\ IdleRepo /\ IdlePartial
    /\ IdleFlight /\ IdleMemo /\ IdleSnapshots /\ IdleTraffic
    /\ IdleDispatch /\ IdleClient /\ IdlePool /\ IdleHealth /\ IdleEval
    /\ IdleStore /\ IdleWebhooks /\ IdleCalendar /\ IdleChanges
    /\ IdleFanout /\ IdlePrivacy /\ InitLanguages /\ IdleSchedule
    /\ IdleRepoType /\ IdlePaginate /\ IdleToken /\ IdleStats /\ IdlePaging
SpecLanguages == InitSpecLanguages /\ [][NextLanguages]_vars

\* one fetch_weekly_schedule run over commits with UTC offsets, page by page
InitSpecSchedule ==
    /\ IdleCache /\ IdleRequests /\ IdleEnviron /\ IdleRepo /\ IdlePartial
    /\ IdleFlight /\ IdleMemo /\ IdleSnapshots /\ IdleTraffic
    /\ IdleDispatch /\ IdleClient /\ IdlePool /\ IdleHealth /\ IdleEval
    /\ IdleStore /\ IdleWebhooks /\ IdleCalendar /\ IdleChanges
    /\ IdleFanout /\ IdlePrivacy /\ IdleLanguages /\ InitSchedule
    /\ IdleRepoType /\ IdlePaginate /\ IdleToken /\ IdleStats /\ IdlePaging
SpecSchedule == InitSpecSchedule /\ [][NextSchedule]_vars

\* both is_repo_type_excluded implementations on one descriptor
InitSpecRepoType ==
    /\ IdleCache /\ IdleRequests /\ IdleEnviron /\ IdleRepo /\ IdlePartial
    /\ IdleFlight /\ IdleMemo /\ IdleSnapshots /\ IdleTraffic
    /\ IdleDispatch /\ IdleClient /\ IdlePool /\ IdleHealth /\ IdleEval
    /\ IdleStore /\ IdleWebhooks /\ IdleCalendar /\ IdleChanges
    /\ IdleFanout /\ IdlePrivacy /\ IdleLanguages /\ IdleSchedule
    /\ InitRepoType /\ IdlePaginate /\ IdleToken /\ IdleStats /\ IdlePaging
SpecRepoType == InitSpecRepoType /\ [][NextRepoType]_vars

\* one paginated listing request and the cache key it uses
InitSpecPaginate ==
    /\ IdleCache /\ IdleRequests /\ IdleEnviron /\ IdleRepo /\ IdlePartial
    /\ IdleFlight /\ IdleMemo /\ IdleSnapshots /\ IdleTraffic
    /\ IdleDispatch /\ IdleClient /\ IdlePool /\ IdleHealth /\ IdleEval
    /\ IdleStore /\ IdleWebhooks /\ IdleCalendar /\ IdleChanges
    /\ IdleFanout /\ IdlePrivacy /\ IdleLanguages /\ IdleSchedule
    /\ IdleRepoType /\ InitPaginate /\ IdleToken /\ IdleStats /\ IdlePaging
SpecPaginate == InitSpecPaginate /\ [][NextPaginate]_vars

\* one request to a statistics endpoint under every token configuration
InitSpecToken ==
    /\ IdleCache /\ IdleRequests /\ IdleEnviron /\ IdleRepo /\ IdlePartial
    /\ IdleFlight /\ IdleMemo /\ IdleSnapshots /\ IdleTraffic
    /\ IdleDispatch /\ IdleClient /\ IdlePool /\ IdleHealth /\ IdleEval
    /\ IdleStore /\ IdleWebhooks /\ IdleCalendar /\ IdleChanges
    /\ IdleFanout /\ IdlePrivacy /\ IdleLanguages /\ IdleSchedule
    /\ IdleRepoType /\ IdlePaginate /\ InitToken /\ IdleStats /\ IdlePaging
SpecToken == InitSpecToken /\ [][NextToken]_vars

\* tasks calling the accessors of one StatsCollector while get_stats runs page by page
InitSpecStats ==
    /\ IdleCache /\ IdleRequests /\ IdleEnviron /\ IdleRepo /\ IdlePartial
    /\ IdleFlight /\ IdleMemo /\ IdleSnapshots /\ IdleTraffic
    /\ IdleDispatch /\ IdleClient /\ IdlePool /\ IdleHealth /\ IdleEval
    /\ IdleStore /\ IdleWebhooks /\ IdleCalendar /\ IdleChanges
    /\ IdleFanout /\ IdlePrivacy /\ IdleLanguages /\ IdleSchedule
    /\ IdleRepoType /\ IdlePaginate /\ IdleToken /\ InitStats /\ IdlePaging
SpecStats == InitSpecStats /\ [][NextStats]_vars

\* the loop of collect() over two connections served by cursor
InitSpecPaging ==
    /\ IdleCache /\ IdleRequests /\ IdleEnviron /\ IdleRepo /\ IdlePartial
    /\ IdleFlight /\ IdleMemo /\ IdleSnapshots /\ IdleTraffic
    /\ IdleDispatch /\ IdleClient /\ IdlePool /\ IdleHealth /\ IdleEval
    /\ IdleStore /\ IdleWebhooks /\ IdleCalendar /\ IdleChanges
    /\ IdleFanout /\ IdlePrivacy /\ IdleLanguages /\ IdleSchedule
    /\ IdleRepoType /\ IdlePaginate /\ IdleToken /\ IdleStats /\ InitPaging
SpecPaging == InitSpecPaging /\ [][NextPaging]_vars

\* the same, with the loop of collect() always taking its next step
SpecPagingFair == SpecPaging /\ WF_vars(NextPaging)

====
